---- MODULE Spec2Model ----
(***************************************************************************)
(* Model of OpenPineScript v2: the runtime's Context (persistent-state     *)
(* table, plot registry, strategy fields; runtime/v2/context), the         *)
(* streaming technical-analysis library (runtime/v2/stdlib/ta), the         *)
(* strategy engine (runtime/v2/stdlib/strategy), the layout shaper of the *)
(* lexer (lexer/v2/PineScriptTokenSource), transpile and parse             *)
(* (transpiler/v2/transpile, parser/v2), and the JavaScript the visitor    *)
(* emits for if and for expressions.                                       *)
(*                                                                         *)
(* Numbers.  A JavaScript number is modelled as an exact fraction <<n, d>> *)
(* in lowest terms with d >= 0: <<n, 1>> is the integer n, <<0, 0>> is NaN *)
(* (0/0), <<1, 0>> and <<-1, 0>> are +Infinity and -Infinity.  Arithmetic  *)
(* is exact, which is what IEEE doubles give on the small integer samples  *)
(* used here; rounding drift (the reason for "healing") is not modelled,   *)
(* and neither is the sign of zero.  <<0, -1>> stands for undefined, which *)
(* an arithmetic operator or a comparison converts to NaN.                 *)
(***************************************************************************)
EXTENDS Integers, Sequences, FiniteSets, TLC

VARIABLES
    states,       \* Context.states: the persistent-state table (slot records)
    callCounter,  \* Context.callCounter
    ret,          \* what the last indicator call returned
    \* a single call site fed sample by sample (the stress test's harness)
    kind,         \* the indicator at the call site under test
    hist,         \* history: every sample passed to the call site so far;
                  \* in a script run, the market data of every bar begun
    lens,         \* history: the length passed with each sample
    \* a script of several call sites run bar by bar (the runner's loop)
    script,       \* the call sites of the script, in program order
    pc,           \* 0 between bars, else the call site the script is at
    bar,          \* Context.currentBarIndex
    market,       \* Context.close and Context.volume of the current bar
    aborted,      \* an exception left the script: the run is over
    meta,         \* history: per slot, the indicator whose initFn made the
                  \*   record and the serial number of that initFn call
    made,         \* history: how many times an initFn has run
    log,          \* history: the getPersistentState calls of the current bar
    lastCall,     \* history: the call counter before and after the last call
    siteSlots,    \* history: the slot each call site got when it first ran
    skipped,      \* history: some call site has been skipped on some bar
    \* the plot registry
    plots,        \* Context.plots: title -> series
    plotLog,      \* history: per bar and title registered on it, the last
                  \*   value registered and the number of registrations
    \* the layout shaper (PineScriptTokenSource)
    indentStack,    \* PineScriptTokenSource.indentStack
    parenLevel,     \* PineScriptTokenSource.parenLevel
    pendingTokens,  \* PineScriptTokenSource.pendingTokens
    indentUnit,     \* PineScriptTokenSource.indentUnit (0 for null)
    delivered,      \* the token the last nextToken() call returned
    lexStatus,      \* "run", "eof" once EOF is delivered, "thrown" after an
                    \*   exception
    physical,       \* history: the last token the scanner produced
    atRead,         \* history: indent stack and paren level (before and
                    \*   after its own bracket) when that token was read
    burst,          \* history: the tokens that read produced, in order
    sent,           \* history: the tokens delivered since that read
    generated,      \* history: BEGIN and END tokens created so far
    handedOver,     \* history: BEGIN and END tokens delivered so far
    nRead,          \* history: number of tokens read from the scanner
    lineStart,      \* the next scanner token starts at column 0
    \* the strategy engine
    position,     \* Context.position: [size, avgPrice]
    cash,         \* Context.cash
    trades,       \* Context.trades
    lastOp,       \* history: the last strategy call, its arguments and the
                  \*   strategy state it found; n counts the calls
    \* the transpiler and the JavaScript it emits
    pineSource,   \* the Pine source handed to transpile, or the if/for
                  \*   construct handed to the visitor
    emitted,      \* what transpile returned or threw; the JavaScript emitted
    jsRun         \* the run of the emitted JavaScript: loop variable, position
                  \*   in the block, value returned, and a trace of the run

taVars == <<kind, hist, lens>>
ctxVars == <<script, pc, bar, market, aborted, meta, made, log, lastCall,
             siteSlots, skipped>>
plotVars == <<plots, plotLog>>
lexVars == <<indentStack, parenLevel, pendingTokens, indentUnit, delivered,
             lexStatus, physical, atRead, burst, sent, generated, handedOver, nRead,
             lineStart>>
stratVars == <<position, cash, trades, lastOp>>
jsVars == <<pineSource, emitted, jsRun>>
vars == <<states, callCounter, ret, taVars, ctxVars, plotVars, lexVars,
          stratVars, jsVars>>

----------------------------------------------------------------------------
(* Bounds of the model.                                                    *)

\* bars fed to one call site
MaxBars == 4
\* bars a script of several call sites is run for
MaxCtxBars == 3
\* window lengths range over 1..MaxLen
MaxLen == 4
MaxTrimBars == 8
\* tokens the scanner produces before the end of the input
MaxTokens == 5
\* spaces and tabs after the line breaks of one LBEG token
MaxIndentChars == 2
\* strategy calls of one run of the strategy engine
MaxOps == 3
\* what a parse run meets in one source
MaxFindings == 4
\* statements of one block
MaxStmts == 2
\* the `to` value of a for expression ranges over 0..MaxTo
MaxTo == 3
\* Context.cash at construction
InitialCash == 100000
\* ta.ts sets MAX_BUFFER_SIZE = 5000, pads a trimmed buffer with 500 samples
\* and heals every 200 (sums) and 50 (variance) updates.  The model keeps the
\* code and scales the four numbers down so that trimming and healing happen
\* within MaxBars bars.
MAX_BUFFER_SIZE == 2
TRIM_PADDING == 1
HEAL_SMA_INTERVAL == 2
HEAL_VAR_INTERVAL == 2

----------------------------------------------------------------------------
(* JavaScript numbers as exact fractions.                                  *)

NaN == <<0, 0>>
Num(i) == <<i, 1>>
IsNaN(a) == a = NaN
IsFinite(a) == a[2] # 0

\* what reading a missing array element or object field gives
Undefined == <<0, -1>>
\* the conversion an arithmetic operator or a comparison applies to an operand
ToNumber(a) == IF a = Undefined THEN NaN ELSE a

Abs(i) == IF i < 0 THEN -i ELSE i
Sign(i) == IF i < 0 THEN -1 ELSE IF i > 0 THEN 1 ELSE 0

RECURSIVE Gcd(_, _)
Gcd(a, b) == IF b = 0 THEN a ELSE Gcd(b, a % b)

\* n/d in lowest terms, the sign carried by the numerator
Norm(n, d) ==
    IF d = 0 THEN <<Sign(n), 0>>
    ELSE LET g == Gcd(Abs(n), Abs(d))
             s == IF d < 0 THEN -1 ELSE 1
         IN  <<(s * n) \div g, (s * d) \div g>>

FNeg(a) == IF a = Undefined THEN NaN ELSE <<-a[1], a[2]>>

FAdd(a, b) ==
    IF IsNaN(ToNumber(a)) \/ IsNaN(ToNumber(b)) THEN NaN
    ELSE IF a[2] = 0 /\ b[2] = 0 THEN (IF a[1] = b[1] THEN a ELSE NaN)
    ELSE IF a[2] = 0 THEN a
    ELSE IF b[2] = 0 THEN b
    ELSE Norm(a[1] * b[2] + b[1] * a[2], a[2] * b[2])

FSub(a, b) == FAdd(a, FNeg(b))

FMul(a, b) ==
    IF IsNaN(ToNumber(a)) \/ IsNaN(ToNumber(b)) THEN NaN
    ELSE Norm(a[1] * b[1], a[2] * b[2])

FDiv(a, b) ==
    IF IsNaN(ToNumber(a)) \/ IsNaN(ToNumber(b)) THEN NaN
    ELSE Norm(a[1] * b[2], a[2] * b[1])

\* a <= b, a >= b as JavaScript compares: false when either side is NaN
FLe(a, b) ==
    /\ ~IsNaN(ToNumber(a))
    /\ ~IsNaN(ToNumber(b))
    /\ IF a[2] = 0 /\ b[2] = 0 THEN a[1] <= b[1]
       ELSE a[1] * b[2] <= b[1] * a[2]

FGe(a, b) == FLe(b, a)
FLt(a, b) == FLe(a, b) /\ a # b
FGt(a, b) == FLt(b, a)

\* Math.max(a, b)
FMax(a, b) ==
    IF IsNaN(a) \/ IsNaN(b) THEN NaN ELSE IF FGe(a, b) THEN a ELSE b

Max(i, j) == IF i >= j THEN i ELSE j
Min(i, j) == IF i <= j THEN i ELSE j

\* Math.abs(a)
FAbs(a) == <<Abs(a[1]), a[2]>>

----------------------------------------------------------------------------
(* Arrays.  A JavaScript array a of length n is the sequence with          *)
(* a[i] = seq[i + 1].                                                       *)

At(buf, i) == IF i >= 0 /\ i < Len(buf) THEN buf[i + 1] ELSE Undefined

\* for (i = start; i < end; i++) acc += buf[i]
RECURSIVE SumFrom(_, _, _, _)
SumFrom(buf, i, end, acc) ==
    IF i >= end THEN acc ELSE SumFrom(buf, i + 1, end, FAdd(acc, At(buf, i)))

\* buffer.splice(0, buffer.length - keep): the trailing keep entries remain
LastN(buf, keep) == SubSeq(buf, Len(buf) - keep + 1, Len(buf))

\* the "MEMORY MANAGEMENT" block shared by every history-keeping indicator
TrimBuffer(buf, length) ==
    IF Len(buf) > MAX_BUFFER_SIZE
    THEN LET keep == length + TRIM_PADDING
         IN  IF Len(buf) > keep THEN LastN(buf, keep) ELSE buf
    ELSE buf

----------------------------------------------------------------------------
(* Context: the persistent-state table.                                    *)

\* Context.reset()
Reset(counter) == 0

\* a getPersistentState that runs initFn on every call and stores its result
\* at the index, whatever is there
GetPersistentStateAlwaysInit(tbl, counter, init) ==
    LET idx == counter
        tbl1 == IF idx >= Len(tbl) THEN Append(tbl, init)
                ELSE [tbl EXCEPT ![idx + 1] = init]
    IN  [ idx     |-> idx,
          tbl     |-> tbl1,
          counter |-> counter + 1,
          created |-> TRUE,
          state   |-> tbl1[idx + 1] ]

\* a getPersistentState that hands every caller the first record of the table
GetPersistentStateOneSlot(tbl, counter, init) ==
    LET idx == 0
        missing == idx >= Len(tbl)
        tbl1 == IF missing THEN Append(tbl, init) ELSE tbl
    IN  [ idx     |-> idx,
          tbl     |-> tbl1,
          counter |-> counter + 1,
          created |-> missing,
          state   |-> tbl1[idx + 1] ]

\* Context.getPersistentState(initFn) called with the table tbl and the call
\* counter at counter: the index handed out, the table and the counter after
\* the call, and whether initFn ran.  states[idx] === undefined holds exactly
\* for the indices past the end, because indices are handed out 0, 1, 2, ...
GetPersistentState(tbl, counter, init) ==
    LET idx == counter
        missing == idx >= Len(tbl)
        tbl1 == IF missing THEN Append(tbl, init) ELSE tbl
    IN  [ idx     |-> idx,
          tbl     |-> tbl1,
          counter |-> counter + 1,
          created |-> missing,
          state   |-> tbl1[idx + 1] ]

\* while (series.length < this.currentBarIndex) series.push(NaN)
RECURSIVE Backfill(_, _)
Backfill(series, idx) ==
    IF Len(series) < idx THEN Backfill(Append(series, NaN), idx) ELSE series

\* a registerPlot that pushes the value whatever the length of the series
RegisterPlotAlwaysPush(registry, idx, value, title) ==
    LET series == IF title \in DOMAIN registry THEN registry[title]
                  ELSE Backfill(<<>>, idx)
    IN  (title :> Append(series, value)) @@ registry

\* Context.registerPlot(value, title) with the registry (a Map from title to
\* series) at registry and currentBarIndex at idx: the registry after the call
RegisterPlot(registry, idx, value, title) ==
    LET series == IF title \in DOMAIN registry THEN registry[title]
                  ELSE Backfill(<<>>, idx)
        written == IF Len(series) > idx
                   THEN [series EXCEPT ![idx + 1] = value]
                   ELSE Append(series, value)
    IN  (title :> written) @@ registry

\* a finalizeBar that only increments the bar index
FinalizeBarNoFill(registry, idx) ==
    [ plots |-> registry, currentBarIndex |-> idx + 1 ]

\* a finalizeBar that leaves the bar index alone
FinalizeBarNoStep(registry, idx) ==
    [ plots |-> [t \in DOMAIN registry |->
                    IF Len(registry[t]) <= idx THEN Append(registry[t], NaN)
                    ELSE registry[t]],
      currentBarIndex |-> idx ]

\* Context.finalizeBar(): the registry and currentBarIndex after the call
FinalizeBar(registry, idx) ==
    [ plots |-> [t \in DOMAIN registry |->
                    IF Len(registry[t]) <= idx THEN Append(registry[t], NaN)
                    ELSE registry[t]],
      currentBarIndex |-> idx + 1 ]

----------------------------------------------------------------------------
(* Moving averages.                                                        *)

SumStateInit == [buffer |-> <<>>, sum |-> Num(0), prevLength |-> 0, counter |-> 0]

\* sma with the exiting sample taken one place too late (buffer.length - length)
SmaExitOffByOne(state, source, length) ==
    LET buf == Append(state.buffer, source)
        n == Len(buf)
        start == Max(0, n - length)
        rebuilt == SumFrom(buf, start, n, Num(0))
        added == FAdd(state.sum, source)
        slid == IF n > length THEN FSub(added, At(buf, n - length)) ELSE added
        cnt == state.counter + 1
        heal == cnt >= HEAL_SMA_INTERVAL
        s1 == IF length # state.prevLength
              THEN [sum |-> rebuilt, counter |-> 0]
              ELSE [sum |-> IF heal THEN rebuilt ELSE slid,
                    counter |-> IF heal THEN 0 ELSE cnt]
        kept == TrimBuffer(buf, length)
    IN  [ state |-> [buffer |-> kept, sum |-> s1.sum, prevLength |-> length,
                     counter |-> s1.counter],
          ret   |-> IF Len(kept) < length THEN NaN
                    ELSE FDiv(s1.sum, Num(length)) ]

\* sma(ctx, source, length) acting on its state record
Sma(state, source, length) ==
    LET buf == Append(state.buffer, source)
        n == Len(buf)
        start == Max(0, n - length)
        rebuilt == SumFrom(buf, start, n, Num(0))
        \* O(1) update
        added == FAdd(state.sum, source)
        slid == IF n > length THEN FSub(added, At(buf, n - 1 - length)) ELSE added
        cnt == state.counter + 1
        heal == cnt >= HEAL_SMA_INTERVAL
        s1 == IF length # state.prevLength
              THEN [sum |-> rebuilt, counter |-> 0]
              ELSE [sum |-> IF heal THEN rebuilt ELSE slid,
                    counter |-> IF heal THEN 0 ELSE cnt]
        kept == TrimBuffer(buf, length)
    IN  [ state |-> [buffer |-> kept, sum |-> s1.sum, prevLength |-> length,
                     counter |-> s1.counter],
          ret   |-> IF Len(kept) < length THEN NaN
                    ELSE FDiv(s1.sum, Num(length)) ]

WmaStateInit ==
    [buffer |-> <<>>, sum |-> Num(0), numerator |-> Num(0), counter |-> 0,
     prevLength |-> 0]

\* for (i = start; i < end; i++) acc += buf[i] * ((i - start) + 1)
RECURSIVE WeightedFrom(_, _, _, _, _)
WeightedFrom(buf, start, i, end, acc) ==
    IF i >= end THEN acc
    ELSE WeightedFrom(buf, start, i + 1, end,
                      FAdd(acc, FMul(At(buf, i), Num((i - start) + 1))))

\* wma(ctx, source, length) acting on its state record
Wma(state, source, length) ==
    LET buf == Append(state.buffer, source)
        n == Len(buf)
        start == Max(0, n - length)
        rebuiltSum == SumFrom(buf, start, n, Num(0))
        rebuiltNum == WeightedFrom(buf, start, start, n, Num(0))
        \* fast update
        fastNum == FSub(FAdd(state.numerator, FMul(Num(length), source)), state.sum)
        added == FAdd(state.sum, source)
        fastSum == IF n > length THEN FSub(added, At(buf, n - 1 - length)) ELSE added
        cnt == state.counter + 1
        heal == cnt >= HEAL_SMA_INTERVAL
        s1 == IF length # state.prevLength \/ n <= length
              THEN [sum |-> rebuiltSum, numerator |-> rebuiltNum, counter |-> 0]
              ELSE [sum |-> IF heal THEN rebuiltSum ELSE fastSum,
                    numerator |-> IF heal THEN rebuiltNum ELSE fastNum,
                    counter |-> IF heal THEN 0 ELSE cnt]
        kept == TrimBuffer(buf, length)
        denom == FDiv(FMul(Num(length), Num(length + 1)), Num(2))
    IN  [ state |-> [buffer |-> kept, sum |-> s1.sum, numerator |-> s1.numerator,
                     counter |-> s1.counter, prevLength |-> length],
          ret   |-> IF Len(kept) < length THEN NaN
                    ELSE FDiv(s1.numerator, denom) ]

----------------------------------------------------------------------------
(* Bollinger bands.  Math.sqrt has no exact value on fractions, so a call  *)
(* returns the triple <<mean, variance, mult>>: the bands of the code are  *)
(* [mean, mean + sqrt(variance) * mult, mean - sqrt(variance) * mult], and *)
(* the NaN triple is <<NaN, NaN, mult>>.                                   *)

StdDevStateInit ==
    [buffer |-> <<>>, sum |-> Num(0), sumSq |-> Num(0), prevLength |-> 0,
     counter |-> 0]

\* for (i = start; i < end; i++) acc += buf[i] * buf[i]
RECURSIVE SumSqFrom(_, _, _, _)
SumSqFrom(buf, i, end, acc) ==
    IF i >= end THEN acc
    ELSE SumSqFrom(buf, i + 1, end, FAdd(acc, FMul(At(buf, i), At(buf, i))))

\* bb(ctx, source, length, mult) acting on its state record
Bb(state, source, length, mult) ==
    LET buf == Append(state.buffer, source)
        n == Len(buf)
        start == Max(0, n - length)
        rebuiltSum == SumFrom(buf, start, n, Num(0))
        rebuiltSq == SumSqFrom(buf, start, n, Num(0))
        added == FAdd(state.sum, source)
        addedSq == FAdd(state.sumSq, FMul(source, source))
        removed == At(buf, n - 1 - length)
        slid == IF n > length THEN FSub(added, removed) ELSE added
        slidSq == IF n > length THEN FSub(addedSq, FMul(removed, removed))
                  ELSE addedSq
        cnt == state.counter + 1
        heal == cnt >= HEAL_VAR_INTERVAL
        s1 == IF length # state.prevLength
              THEN [sum |-> rebuiltSum, sumSq |-> rebuiltSq, counter |-> 0]
              ELSE [sum |-> IF heal THEN rebuiltSum ELSE slid,
                    sumSq |-> IF heal THEN rebuiltSq ELSE slidSq,
                    counter |-> IF heal THEN 0 ELSE cnt]
        kept == TrimBuffer(buf, length)
        mean == FDiv(s1.sum, Num(length))
        variance == FMax(Num(0), FSub(FDiv(s1.sumSq, Num(length)), FMul(mean, mean)))
    IN  [ state |-> [buffer |-> kept, sum |-> s1.sum, sumSq |-> s1.sumSq,
                     prevLength |-> length, counter |-> s1.counter],
          ret   |-> IF Len(kept) < length THEN <<NaN, NaN, mult>>
                    ELSE <<mean, variance, mult>> ]

----------------------------------------------------------------------------
(* Rolling extremes on a monotonic deque.                                  *)

DequeStateInit ==
    [buffer |-> <<>>, dequeVals |-> <<>>, dequeIdxs |-> <<>>, globalIdx |-> 0,
     prevLength |-> 0]

Front(seq) == IF Len(seq) = 0 THEN Undefined ELSE seq[1]
DropLast(seq) == SubSeq(seq, 1, Len(seq) - 1)

\* while (dequeVals.length > 0 && back >= val [isMin] / back <= val) pop both
RECURSIVE PopDominated(_, _, _, _)
PopDominated(vals, idxs, val, isMin) ==
    IF /\ Len(vals) > 0
       /\ IF isMin THEN FGe(vals[Len(vals)], val) ELSE FLe(vals[Len(vals)], val)
    THEN PopDominated(DropLast(vals), DropLast(idxs), val, isMin)
    ELSE [vals |-> vals, idxs |-> idxs]

\* a push that pops nothing
PushWithoutPop(vals, idxs, val, idx, isMin) ==
    [vals |-> Append(vals, val), idxs |-> Append(idxs, idx)]

\* pop the dominated entries, then push (val, idx)
PushMonotonic(vals, idxs, val, idx, isMin) ==
    LET p == PopDominated(vals, idxs, val, isMin)
    IN  [vals |-> Append(p.vals, val), idxs |-> Append(p.idxs, idx)]

\* the rebuild loop: for (i = start; i < buffer.length; i++) ...
RECURSIVE RebuildDeque(_, _, _, _, _, _)
RebuildDeque(buf, globalIdx, i, vals, idxs, isMin) ==
    IF i >= Len(buf) THEN [vals |-> vals, idxs |-> idxs]
    ELSE LET itemGlobalIdx == globalIdx - (Len(buf) - 1 - i)
             q == PushMonotonic(vals, idxs, At(buf, i), itemGlobalIdx, isMin)
         IN  RebuildDeque(buf, globalIdx, i + 1, q.vals, q.idxs, isMin)

\* updateMonotonicDeque(state, source, length, isMin)
UpdateMonotonicDeque(state, source, length, isMin) ==
    LET buf == Append(state.buffer, source)
        start == Max(0, Len(buf) - length)
        rebuilt == RebuildDeque(buf, state.globalIdx, start, <<>>, <<>>, isMin)
        pushed == PushMonotonic(state.dequeVals, state.dequeIdxs, source,
                                state.globalIdx, isMin)
        evicted == IF pushed.idxs[1] <= state.globalIdx - length
                   THEN [vals |-> Tail(pushed.vals), idxs |-> Tail(pushed.idxs)]
                   ELSE pushed
        q == IF length # state.prevLength THEN rebuilt ELSE evicted
    IN  [buffer |-> TrimBuffer(buf, length), dequeVals |-> q.vals,
         dequeIdxs |-> q.idxs, globalIdx |-> state.globalIdx + 1,
         prevLength |-> length]

\* highest(ctx, source, length)
Highest(state, source, length) ==
    LET s1 == UpdateMonotonicDeque(state, source, length, FALSE)
    IN  [state |-> s1, ret |-> Front(s1.dequeVals)]

\* lowest(ctx, source, length)
Lowest(state, source, length) ==
    LET s1 == UpdateMonotonicDeque(state, source, length, TRUE)
    IN  [state |-> s1, ret |-> Front(s1.dequeVals)]

\* dequeIdxs[0] - (globalIdx - 1)
BarsOffset(s1) ==
    IF Len(s1.dequeIdxs) = 0 THEN NaN
    ELSE Num(s1.dequeIdxs[1] - (s1.globalIdx - 1))

\* highestbars(ctx, source, length)
Highestbars(state, source, length) ==
    LET s1 == UpdateMonotonicDeque(state, source, length, FALSE)
    IN  [state |-> s1, ret |-> BarsOffset(s1)]

\* lowestbars(ctx, source, length)
Lowestbars(state, source, length) ==
    LET s1 == UpdateMonotonicDeque(state, source, length, TRUE)
    IN  [state |-> s1, ret |-> BarsOffset(s1)]

----------------------------------------------------------------------------
(* EMA and RMA.  A state record is a JavaScript object: a field the record *)
(* does not have reads as undefined, and an assignment adds it.            *)

EmaStateInit == [prev |-> Undefined]

Field(state, f) == IF f \in DOMAIN state THEN state[f] ELSE Undefined
SetField(state, f, v) == (f :> v) @@ state

\* the body shared by ema and rma, which differ in alpha
Smooth(state, source, alpha) ==
    IF Field(state, "prev") = Undefined
    THEN [state |-> SetField(state, "prev", source), ret |-> source]
    ELSE LET cur == FAdd(FMul(source, alpha),
                         FMul(state.prev, FSub(Num(1), alpha)))
         IN  [state |-> SetField(state, "prev", cur), ret |-> cur]

\* ema(ctx, source, length) acting on its state record
Ema(state, source, length) == Smooth(state, source, FDiv(Num(2), Num(length + 1)))

\* rma(ctx, source, length) acting on its state record
Rma(state, source, length) == Smooth(state, source, FDiv(Num(1), Num(length)))

----------------------------------------------------------------------------
(* Cross logic.  The state record keeps the operands of the previous call. *)

CrossStateInit == [prevX |-> NaN, prevY |-> NaN]

\* the lines the three functions share: the first-call test and the update
CrossStep(state, x, y, result) ==
    IF IsNaN(ToNumber(state.prevX))
    THEN [state |-> [prevX |-> x, prevY |-> y], ret |-> FALSE]
    ELSE [state |-> [prevX |-> x, prevY |-> y], ret |-> result]

\* cross(ctx, x, y)
Cross(state, x, y) ==
    CrossStep(state, x, y,
              \/ FGt(state.prevX, state.prevY) /\ FLt(x, y)
              \/ FLt(state.prevX, state.prevY) /\ FGt(x, y))

\* crossover(ctx, x, y)
Crossover(state, x, y) ==
    CrossStep(state, x, y, FLe(state.prevX, state.prevY) /\ FGt(x, y))

\* crossunder(ctx, x, y)
Crossunder(state, x, y) ==
    CrossStep(state, x, y, FGe(state.prevX, state.prevY) /\ FLt(x, y))

----------------------------------------------------------------------------
(* Indicators that keep a plain history buffer: mom, swma, cci.            *)

BufferStateInit == [buffer |-> <<>>]

\* mom(ctx, source, length) acting on its state record
Mom(state, source, length) ==
    LET kept == TrimBuffer(Append(state.buffer, source), length)
    IN  [ state |-> [buffer |-> kept],
          ret   |-> IF Len(kept) <= length THEN NaN
                    ELSE FSub(source, At(kept, Len(kept) - 1 - length)) ]

\* swma(ctx, source) acting on its state record
Swma(state, source) ==
    LET buf == Append(state.buffer, source)
        kept == IF Len(buf) > 4 THEN Tail(buf) ELSE buf
    IN  [ state |-> [buffer |-> kept],
          ret   |-> IF Len(kept) < 4 THEN NaN
                    ELSE FDiv(FAdd(FAdd(FAdd(FMul(At(kept, 0), Num(1)),
                                             FMul(At(kept, 1), Num(2))),
                                        FMul(At(kept, 2), Num(2))),
                                   FMul(At(kept, 3), Num(1))),
                              Num(6)) ]

\* for (i = start; i < end; i++) meanDev += Math.abs(buf[i] - ma)
RECURSIVE MeanDevFrom(_, _, _, _, _)
MeanDevFrom(buf, i, end, ma, acc) ==
    IF i >= end THEN acc
    ELSE MeanDevFrom(buf, i + 1, end, ma, FAdd(acc, FAbs(FSub(At(buf, i), ma))))

\* cci(ctx, source, length) after its sma call has returned ma, acting on the
\* state record of its own buffer
Cci(state, source, length, ma) ==
    LET kept == TrimBuffer(Append(state.buffer, source), length)
        meanDev == FDiv(MeanDevFrom(kept, Len(kept) - length, Len(kept), ma,
                                    Num(0)),
                        Num(length))
    IN  [ state |-> [buffer |-> kept],
          ret   |-> IF Len(kept) < length THEN NaN
                    ELSE FDiv(FSub(source, ma),
                              FMul(FDiv(Num(15), Num(1000)), meanDev)) ]

----------------------------------------------------------------------------
(* One bar of a script with a single indicator call site.                  *)

\* new PineScriptTokenSource(input): the field initializers
LexerAtStart ==
    /\ indentStack = <<0>>
    /\ parenLevel = 0
    /\ pendingTokens = <<>>
    /\ indentUnit = 0
    /\ delivered = [type |-> "none"]
    /\ lexStatus = "run"
    /\ physical = [type |-> "none"]
    /\ atRead = [stack |-> <<0>>, parenBefore |-> 0, paren |-> 0]
    /\ burst = <<>>
    /\ sent = <<>>
    /\ generated = [BEGIN |-> 0, END |-> 0]
    /\ handedOver = [BEGIN |-> 0, END |-> 0]
    /\ nRead = 0
    /\ lineStart = TRUE

\* nothing has been handed to the transpiler
TranspilerAtStart ==
    /\ pineSource = <<>>
    /\ emitted = [status |-> "none"]
    /\ jsRun = [state |-> "idle"]

StrategyAtStart ==
    /\ position = [size |-> Num(0), avgPrice |-> Num(0)]
    /\ cash = Num(InitialCash)
    /\ trades = <<>>
    /\ lastOp = [op |-> "none", n |-> 0]

Vals == {Num(1), Num(2), NaN}
Lens == 1 .. MaxLen
\* the multiplier the bb call site passes
Mult == Num(2)
DequeKinds == {"highest", "lowest", "highestbars", "lowestbars"}
Kinds == {"sma", "wma", "bb"} \cup DequeKinds
SmoothKinds == {"ema", "rma"}

\* the initFn each indicator hands to getPersistentState
InitialState(k) ==
    CASE k = "sma" -> SumStateInit
      [] k = "wma" -> WmaStateInit
      [] k = "bb" -> StdDevStateInit
      [] k \in DequeKinds -> DequeStateInit
      [] k \in SmoothKinds -> EmaStateInit
      [] k = "mom" -> BufferStateInit

Indicator(k, state, source, length) ==
    CASE k = "sma" -> Sma(state, source, length)
      [] k = "wma" -> Wma(state, source, length)
      [] k = "bb" -> Bb(state, source, length, Mult)
      [] k = "highest" -> Highest(state, source, length)
      [] k = "lowest" -> Lowest(state, source, length)
      [] k = "highestbars" -> Highestbars(state, source, length)
      [] k = "lowestbars" -> Lowestbars(state, source, length)
      [] k = "ema" -> Ema(state, source, length)
      [] k = "rma" -> Rma(state, source, length)
      [] k = "mom" -> Mom(state, source, length)

\* the executor resets the call counter, then the script calls the indicator
Bar(source, length) ==
    /\ Len(hist) < MaxBars
    /\ LET got == GetPersistentState(states, Reset(callCounter), InitialState(kind))
           out == Indicator(kind, got.state, source, length)
       IN  /\ states' = [got.tbl EXCEPT ![got.idx + 1] = out.state]
           /\ callCounter' = got.counter
           /\ ret' = out.ret
    /\ hist' = Append(hist, source)
    /\ lens' = Append(lens, length)
    /\ UNCHANGED <<kind, ctxVars, plotVars, lexVars, stratVars, jsVars>>

InitTA(ks) ==
    /\ states = <<>>
    /\ callCounter = 0
    /\ kind \in ks
    /\ ret = NaN
    /\ hist = <<>>
    /\ lens = <<>>
    /\ script = <<>>
    /\ pc = 0
    /\ bar = 0
    /\ market = [close |-> Num(0), volume |-> Num(0)]
    /\ aborted = FALSE
    /\ meta = <<>>
    /\ made = 0
    /\ log = <<>>
    /\ lastCall = [site |-> 0]
    /\ siteSlots = <<>>
    /\ skipped = FALSE
    /\ plots = <<>>
    /\ plotLog = <<>>
    /\ LexerAtStart
    /\ StrategyAtStart
    /\ TranspilerAtStart

NextTA == \E source \in Vals, length \in Lens : Bar(source, length)

SpecSma == InitTA({"sma"}) /\ [][NextTA]_vars
SpecWma == InitTA({"wma"}) /\ [][NextTA]_vars
SpecBb == InitTA({"bb"}) /\ [][NextTA]_vars
SpecDeque == InitTA(DequeKinds) /\ [][NextTA]_vars
\* a call site of one of the three windowed averages
SpecAveraging == InitTA({"sma", "wma", "bb"}) /\ [][NextTA]_vars

\* a call site of a history-keeping indicator run for more bars than the
\* buffer holds, on numbers, at a short and a long length
TrimKinds == Kinds \cup {"mom"}
TrimVals == {Num(1), Num(2)}
TrimLens == {1, MaxLen}

LongBar(source, length) ==
    /\ Len(hist) < MaxTrimBars
    /\ LET got == GetPersistentState(states, Reset(callCounter), InitialState(kind))
           out == Indicator(kind, got.state, source, length)
       IN  /\ states' = [got.tbl EXCEPT ![got.idx + 1] = out.state]
           /\ callCounter' = got.counter
           /\ ret' = out.ret
    /\ hist' = Append(hist, source)
    /\ lens' = Append(lens, length)
    /\ UNCHANGED <<kind, ctxVars, plotVars, lexVars, stratVars, jsVars>>

NextTrim == \E source \in TrimVals, length \in TrimLens : LongBar(source, length)
SpecTrim == InitTA(TrimKinds) /\ [][NextTrim]_vars

\* a call site of cross, crossover or crossunder; the history keeps the
\* operand pairs
CrossKinds == {"cross", "crossover", "crossunder"}
CrossVals == {Num(1), Num(2), NaN}

CrossIndicator(k, state, x, y) ==
    CASE k = "cross" -> Cross(state, x, y)
      [] k = "crossover" -> Crossover(state, x, y)
      [] k = "crossunder" -> Crossunder(state, x, y)

CrossBar(x, y) ==
    /\ Len(hist) < MaxBars
    /\ LET got == GetPersistentState(states, Reset(callCounter), CrossStateInit)
           out == CrossIndicator(kind, got.state, x, y)
       IN  /\ states' = [got.tbl EXCEPT ![got.idx + 1] = out.state]
           /\ callCounter' = got.counter
           /\ ret' = out.ret
    /\ hist' = Append(hist, <<x, y>>)
    /\ UNCHANGED <<kind, lens, ctxVars, plotVars, lexVars, stratVars, jsVars>>

NextCross == \E x \in CrossVals, y \in CrossVals : CrossBar(x, y)
SpecCross == InitTA(CrossKinds) /\ [][NextCross]_vars

\* call sites that are also handed a length of zero or below
SignedLens == -1 .. 1
NextSigned == \E source \in Vals, length \in SignedLens : Bar(source, length)
SpecSigned == InitTA(Kinds \cup SmoothKinds) /\ [][NextSigned]_vars

----------------------------------------------------------------------------
(* The strategy engine (stdlib/strategy).  A call works on the record      *)
(* st = [position, cash, trades] and the close of the current bar.          *)
(* entryTime and exitTime of a trade are left out: the model has no clock. *)

\* a close_all that books the trade but not its pnl
CloseAllKeepCash(st, close, comment) ==
    IF st.position.size = Num(0) THEN st
    ELSE LET qty == FAbs(st.position.size)
             isLong == FGt(st.position.size, Num(0))
             pnl == IF isLong
                    THEN FMul(FSub(close, st.position.avgPrice), qty)
                    ELSE FMul(FSub(st.position.avgPrice, close), qty)
             trade == [ id |-> IF comment = <<>> THEN <<"Close">> ELSE comment,
                        entryPrice |-> st.position.avgPrice,
                        exitPrice |-> close,
                        qty |-> qty,
                        pnl |-> pnl,
                        direction |-> IF isLong THEN "long" ELSE "short" ]
         IN  [ position |-> [size |-> Num(0), avgPrice |-> Num(0)],
               cash |-> st.cash,
               trades |-> Append(st.trades, trade) ]

\* a close_all whose trade replaces the log instead of being appended to it
CloseAllRestartLog(st, close, comment) ==
    IF st.position.size = Num(0) THEN st
    ELSE LET qty == FAbs(st.position.size)
             isLong == FGt(st.position.size, Num(0))
             pnl == IF isLong
                    THEN FMul(FSub(close, st.position.avgPrice), qty)
                    ELSE FMul(FSub(st.position.avgPrice, close), qty)
             trade == [ id |-> IF comment = <<>> THEN <<"Close">> ELSE comment,
                        entryPrice |-> st.position.avgPrice,
                        exitPrice |-> close,
                        qty |-> qty,
                        pnl |-> pnl,
                        direction |-> IF isLong THEN "long" ELSE "short" ]
         IN  [ position |-> [size |-> Num(0), avgPrice |-> Num(0)],
               cash |-> FAdd(st.cash, pnl),
               trades |-> <<trade>> ]

\* close_all(ctx, comment); the comment is a pair <<prefix, id>>, <<>> when
\* it is not given
CloseAll(st, close, comment) ==
    IF st.position.size = Num(0) THEN st
    ELSE LET currentPrice == close
             qty == FAbs(st.position.size)
             isLong == FGt(st.position.size, Num(0))
             pnl == IF isLong
                    THEN FMul(FSub(currentPrice, st.position.avgPrice), qty)
                    ELSE FMul(FSub(st.position.avgPrice, currentPrice), qty)
             trade == [ id |-> IF comment = <<>> THEN <<"Close">> ELSE comment,
                        entryPrice |-> st.position.avgPrice,
                        exitPrice |-> currentPrice,
                        qty |-> qty,
                        pnl |-> pnl,
                        direction |-> IF isLong THEN "long" ELSE "short" ]
         IN  [ position |-> [size |-> Num(0), avgPrice |-> Num(0)],
               cash |-> FAdd(st.cash, pnl),
               trades |-> Append(st.trades, trade) ]

\* close(ctx, id)
Close(st, close, id) == CloseAll(st, close, <<"Close", id>>)

\* an entry that takes the price of the last order as the average price
EntryAtLastPrice(st, close, id, dir, qty) ==
    LET newQty == IF dir = "long" THEN qty ELSE FNeg(qty)
    IN  [ st EXCEPT !.position =
              [size |-> FAdd(st.position.size, newQty), avgPrice |-> close] ]

\* an entry that adds the order to whatever position is open
EntryWithoutReversal(st, close, id, dir, qty) ==
    LET newQty == IF dir = "long" THEN qty ELSE FNeg(qty)
        currentVal == FMul(FAbs(st.position.size), st.position.avgPrice)
        newVal == FMul(FAbs(newQty), close)
        totalQty == FAbs(FAdd(st.position.size, newQty))
    IN  [ st EXCEPT !.position =
              [size |-> FAdd(st.position.size, newQty),
               avgPrice |-> IF totalQty # Num(0)
                            THEN FDiv(FAdd(currentVal, newVal), totalQty)
                            ELSE close] ]

\* entry(ctx, id, dir, qty)
Entry(st, close, id, dir, qty) ==
    LET isLong == dir = "long"
        currentPrice == close
        reverse == /\ st.position.size # Num(0)
                   /\ isLong # FGt(st.position.size, Num(0))
        st1 == IF reverse THEN CloseAll(st, close, <<"Reverse for", id>>) ELSE st
        newQty == IF isLong THEN qty ELSE FNeg(qty)
        currentVal == FMul(FAbs(st1.position.size), st1.position.avgPrice)
        newVal == FMul(FAbs(newQty), currentPrice)
        totalQty == FAbs(FAdd(st1.position.size, newQty))
        avgPrice == IF totalQty # Num(0)
                    THEN FDiv(FAdd(currentVal, newVal), totalQty)
                    ELSE currentPrice
    IN  [ st1 EXCEPT !.position =
              [size |-> FAdd(st1.position.size, newQty),
               avgPrice |-> avgPrice] ]

\* an equity that leaves the open position out
EquityCashOnly(st, close) == st.cash

\* equity(ctx): cash plus the unrealized profit of the open position
Equity(st, close) ==
    LET unrealized == IF st.position.size # Num(0)
                      THEN FMul(FSub(close, st.position.avgPrice),
                                st.position.size)
                      ELSE Num(0)
    IN  FAdd(st.cash, unrealized)

----------------------------------------------------------------------------
(* Indicator calls against the Context.  A call works on the record        *)
(* m = [tbl, counter, meta, made, log, aborted]: the state table and call  *)
(* counter of the Context, the history of who made which slot, and whether *)
(* an exception has been thrown.  Each call returns [m, ret].              *)

\* statement sequencing, `const x = v; rest`, written Do([x \in {v} |-> rest]):
\* v is evaluated once and rest is evaluated with x bound to its value
Do(step) == step[CHOOSE x \in DOMAIN step : TRUE]

\* ctx.getPersistentState(init) made by indicator `by`, with its bookkeeping
Acquire(m, by, init) ==
    LET got == GetPersistentState(m.tbl, m.counter, init)
        born == [creator |-> by, id |-> m.made + 1]
        meta1 == IF ~got.created THEN m.meta
                 ELSE IF got.idx < Len(m.meta)
                      THEN [m.meta EXCEPT ![got.idx + 1] = born]
                      ELSE Append(m.meta, born)
        who == IF got.idx < Len(meta1) THEN meta1[got.idx + 1]
               ELSE [creator |-> "nobody", id |-> 0]
    IN  [ tbl |-> got.tbl,
          counter |-> got.counter,
          meta |-> meta1,
          made |-> IF got.created THEN m.made + 1 ELSE m.made,
          log |-> Append(m.log, [idx |-> got.idx, by |-> by,
                                 creator |-> who.creator, id |-> who.id,
                                 created |-> got.created,
                                 lenBefore |-> Len(m.tbl),
                                 state |-> got.state]),
          aborted |-> m.aborted ]

\* the record the last Acquire returned, and its place in the table
Got(m) == m.log[Len(m.log)].state
GotAt(m) == m.log[Len(m.log)].idx + 1

\* the state object, updated in place: the fields written replace the old
\* ones, every other field of the object stays
Store(m, newState) == [m EXCEPT !.tbl[GotAt(m)] = newState @@ Got(m)]

\* sma(ctx, source, length): state.buffer.push throws a TypeError when the
\* record has no buffer
SmaCall(m, source, length) ==
    Do([a \in {Acquire(m, "sma", SumStateInit)} |->
        IF "buffer" \notin DOMAIN Got(a)
        THEN [m |-> [a EXCEPT !.aborted = TRUE], ret |-> NaN]
        ELSE Do([out \in {Sma(Got(a), source, length)} |->
                 [m |-> Store(a, out.state), ret |-> out.ret]])])

\* ema(ctx, source, length)
EmaCall(m, source, length) ==
    Do([a \in {Acquire(m, "ema", EmaStateInit)} |->
    Do([out \in {Ema(Got(a), source, length)} |->
        [m |-> Store(a, out.state), ret |-> out.ret]])])

\* rma(ctx, source, length)
RmaCall(m, source, length) ==
    Do([a \in {Acquire(m, "rma", EmaStateInit)} |->
    Do([out \in {Rma(Got(a), source, length)} |->
        [m |-> Store(a, out.state), ret |-> out.ret]])])

\* vwma(ctx, source, length); an exception in a sub-call ends the call
Vwma(m, source, volume, length) ==
    Do([num \in {SmaCall(m, FMul(source, volume), length)} |->
        IF num.m.aborted THEN num
        ELSE Do([denom \in {SmaCall(num.m, volume, length)} |->
                 IF denom.m.aborted THEN denom
                 ELSE [m |-> denom.m, ret |-> FDiv(num.ret, denom.ret)]])])

\* the tail of rsi: 100 - 100 / (1 + avgGain / avgLoss), 100 when avgLoss is 0
RsiValue(avgGain, avgLoss) ==
    IF avgLoss = Num(0) THEN Num(100)
    ELSE FSub(Num(100), FDiv(Num(100), FAdd(Num(1), FDiv(avgGain, avgLoss))))

\* rsi that returns NaN on its first bar without calling rma
RsiNoWarmupCalls(m, source, length) ==
    Do([a \in {Acquire(m, "rsi", [prevSrc |-> Undefined])} |->
        LET prevSrc == Field(Got(a), "prevSrc")
            change == FSub(source, prevSrc)
        IN  Do([a1 \in {Store(a, [prevSrc |-> source])} |->
                IF prevSrc = Undefined
                THEN [m |-> a1, ret |-> NaN]
                ELSE Do([avgGain \in {RmaCall(a1, FMax(change, Num(0)), length)} |->
                     Do([avgLoss \in {RmaCall(avgGain.m, FMax(FNeg(change), Num(0)), length)} |->
                              [m |-> avgLoss.m,
                               ret |-> RsiValue(avgGain.ret, avgLoss.ret)]])])])])

\* rsi(ctx, source, length)
Rsi(m, source, length) ==
    Do([a \in {Acquire(m, "rsi", [prevSrc |-> Undefined])} |->
        LET prevSrc == Field(Got(a), "prevSrc")
            change == FSub(source, prevSrc)
        IN  Do([a1 \in {Store(a, [prevSrc |-> source])} |->
                IF prevSrc = Undefined
                THEN Do([warm1 \in {RmaCall(a1, Num(0), length)} |->
                     Do([warm2 \in {RmaCall(warm1.m, Num(0), length)} |->
                          [m |-> warm2.m, ret |-> NaN]])])
                ELSE Do([avgGain \in {RmaCall(a1, FMax(change, Num(0)), length)} |->
                     Do([avgLoss \in {RmaCall(avgGain.m, FMax(FNeg(change), Num(0)), length)} |->
                              [m |-> avgLoss.m,
                               ret |-> RsiValue(avgGain.ret, avgLoss.ret)]])])])])

\* macd(ctx, source, fastLen, slowLen, sigLen)
Macd(m, source, fastLen, slowLen, sigLen) ==
    Do([fast \in {EmaCall(m, source, fastLen)} |->
    Do([slow \in {EmaCall(fast.m, source, slowLen)} |->
    Do([signalLine \in {EmaCall(slow.m, FSub(fast.ret, slow.ret), sigLen)} |->
        LET macdLine == FSub(fast.ret, slow.ret)
        IN  [m |-> signalLine.m,
             ret |-> <<macdLine, signalLine.ret,
                       FSub(macdLine, signalLine.ret)>>]])])])

\* a call of wma, bb, mom, swma or one of the highest/lowest family: one
\* state record, whose buffer.push throws a TypeError when the record has no
\* buffer
BufferCall(m, k, source, length) ==
    Do([a \in {Acquire(m, k, IF k = "swma" THEN BufferStateInit
                             ELSE InitialState(k))} |->
        IF "buffer" \notin DOMAIN Got(a)
        THEN [m |-> [a EXCEPT !.aborted = TRUE], ret |-> NaN]
        ELSE Do([out \in {IF k = "swma" THEN Swma(Got(a), source)
                          ELSE Indicator(k, Got(a), source, length)} |->
                 [m |-> Store(a, out.state), ret |-> out.ret]])])

\* cross(ctx, x, y), crossover(ctx, x, y), crossunder(ctx, x, y)
CrossCall(m, k, x, y) ==
    Do([a \in {Acquire(m, k, CrossStateInit)} |->
    Do([out \in {CrossIndicator(k, Got(a), x, y)} |->
        [m |-> Store(a, out.state), ret |-> out.ret]])])

\* trix(ctx, source, length)
Trix(m, source, length) ==
    Do([e1 \in {EmaCall(m, source, length)} |->
    Do([e2 \in {EmaCall(e1.m, e1.ret, length)} |->
    Do([e3 \in {EmaCall(e2.m, e2.ret, length)} |->
    Do([a \in {Acquire(e3.m, "trix", [prevE3 |-> Undefined])} |->
        LET prevE3 == Field(Got(a), "prevE3")
        IN  [m |-> Store(a, [prevE3 |-> e3.ret]),
             ret |-> IF prevE3 = Undefined THEN Num(0)
                     ELSE FDiv(FMul(Num(100), FSub(e3.ret, prevE3)),
                               prevE3)]])])])])

\* cci that returns NaN as soon as its sma call has, before asking for its
\* own buffer
CciCallEarlyReturn(m, source, length) ==
    Do([ma \in {SmaCall(m, source, length)} |->
        IF ma.m.aborted \/ IsNaN(ma.ret) THEN ma
        ELSE Do([a \in {Acquire(ma.m, "cci", BufferStateInit)} |->
                 IF "buffer" \notin DOMAIN Got(a)
                 THEN [m |-> [a EXCEPT !.aborted = TRUE], ret |-> NaN]
                 ELSE Do([out \in {Cci(Got(a), source, length, ma.ret)} |->
                          [m |-> Store(a, out.state), ret |-> out.ret]])])])

\* cci(ctx, source, length)
CciCall(m, source, length) ==
    Do([ma \in {SmaCall(m, source, length)} |->
        IF ma.m.aborted THEN ma
        ELSE Do([a \in {Acquire(ma.m, "cci", BufferStateInit)} |->
                 IF "buffer" \notin DOMAIN Got(a)
                 THEN [m |-> [a EXCEPT !.aborted = TRUE], ret |-> NaN]
                 ELSE Do([out \in {Cci(Got(a), source, length, ma.ret)} |->
                          [m |-> Store(a, out.state), ret |-> out.ret]])])])

\* stoch(ctx, source, high, low, length)
Stoch(m, source, high, low, length) ==
    Do([l \in {BufferCall(m, "lowest", low, length)} |->
        IF l.m.aborted THEN l
        ELSE Do([h \in {BufferCall(l.m, "highest", high, length)} |->
                 IF h.m.aborted THEN h
                 ELSE [m |-> h.m,
                       ret |-> IF h.ret = l.ret THEN Num(0)
                               ELSE FDiv(FMul(Num(100), FSub(source, l.ret)),
                                         FSub(h.ret, l.ret))]])])

----------------------------------------------------------------------------
(* A script of several call sites, run bar by bar.                         *)

\* a call site: the indicator called, whether the call stands in an `if`
\* (so that a bar may skip it), and the length it passes
Site(k, cond) == [kind |-> k, cond |-> cond, length |-> 2]

\* a plot(series, title) call that stands in an `if`; series is the value of
\* the last indicator call or the bar's close
PlotSite(title, series) ==
    [kind |-> "plot", cond |-> TRUE, title |-> title, series |-> series]

\* a strategy.entry(id, dir) call that stands in an `if`; qty is the default
EntrySite(id, dir) ==
    [kind |-> "entry", cond |-> TRUE, id |-> id, dir |-> dir, qty |-> Num(1)]

BufferKinds == {"wma", "bb", "mom", "swma"} \cup DequeKinds
IndicatorKinds ==
    {"sma", "ema", "rma", "vwma", "rsi", "macd", "trix", "cci", "stoch"}
        \cup BufferKinds \cup CrossKinds

Scripts ==
    { <<Site("sma", FALSE), Site("vwma", FALSE), Site("rsi", FALSE),
        Site("macd", FALSE)>>,
      <<Site("ema", TRUE), Site("rma", FALSE), Site("sma", FALSE)>>,
      <<Site("sma", FALSE), PlotSite("A", "ret"), PlotSite("B", "close"),
        PlotSite("A", "close")>>,
      <<EntrySite("L", "long"), EntrySite("S", "short")>> }

\* scripts that call the other indicators of the library, with lengths from
\* zero up
SiteOf(k, cond, length) == [Site(k, cond) EXCEPT !.length = length]

SlotScripts ==
    { <<SiteOf("highest", TRUE, 1), Site("lowest", FALSE),
        Site("stoch", FALSE), PlotSite("A", "ret"),
        SiteOf("highestbars", FALSE, 3), Site("lowestbars", FALSE)>>,
      <<Site("cross", TRUE), Site("crossover", FALSE),
        EntrySite("L", "long"), Site("crossunder", FALSE)>>,
      <<Site("swma", TRUE), SiteOf("mom", FALSE, 1), Site("ema", FALSE),
        Site("trix", FALSE)>>,
      <<Site("wma", FALSE), SiteOf("sma", FALSE, 0), Site("bb", FALSE),
        Site("cci", FALSE), SiteOf("rsi", TRUE, 1)>> }

Closes == {Num(1), Num(2)}
Volumes == {Num(1), Num(2)}

\* the runner assigns the bar's market data, the executor calls ctx.reset()
BeginBar(close, volume) ==
    /\ ~aborted
    /\ pc = 0
    /\ bar < MaxCtxBars
    /\ market' = [close |-> close, volume |-> volume]
    /\ callCounter' = Reset(callCounter)
    /\ pc' = 1
    /\ log' = <<>>
    /\ plotLog' = Append(plotLog, <<>>)
    /\ hist' = Append(hist, [close |-> close, volume |-> volume])
    /\ UNCHANGED <<states, ret, kind, lens, script, bar, aborted, meta, made,
                   lastCall, siteSlots, skipped, plots, lexVars, stratVars, jsVars>>

\* the indicator call of a site, with the arguments the script passes when
\* the market data of the bar are mk
RunSiteAt(site, m, mk) ==
    CASE site.kind = "sma" -> SmaCall(m, mk.close, site.length)
      [] site.kind = "ema" -> EmaCall(m, mk.close, site.length)
      [] site.kind = "rma" -> RmaCall(m, mk.close, site.length)
      [] site.kind = "vwma" -> Vwma(m, mk.close, mk.volume, site.length)
      [] site.kind = "rsi" -> Rsi(m, mk.close, site.length)
      [] site.kind = "macd" ->
            Macd(m, mk.close, site.length, site.length + 1, site.length)
      [] site.kind \in BufferKinds ->
            BufferCall(m, site.kind, mk.close, site.length)
      [] site.kind \in CrossKinds ->
            CrossCall(m, site.kind, mk.close, mk.volume)
      [] site.kind = "trix" -> Trix(m, mk.close, site.length)
      [] site.kind = "cci" -> CciCall(m, mk.close, site.length)
      [] site.kind = "stoch" ->
            Stoch(m, mk.close, mk.close, mk.volume, site.length)

RunSite(site, m) == RunSiteAt(site, m, market)

\* the script reaches call site pc and makes the call
CallSite ==
    /\ ~aborted
    /\ pc \in 1 .. Len(script)
    /\ script[pc].kind \in IndicatorKinds
    /\ \E m \in {[tbl |-> states, counter |-> callCounter, meta |-> meta,
                   made |-> made, log |-> log, aborted |-> FALSE]} :
       \E out \in {RunSite(script[pc], m)} :
           /\ states' = out.m.tbl
           /\ callCounter' = out.m.counter
           /\ meta' = out.m.meta
           /\ made' = out.m.made
           /\ log' = out.m.log
           /\ aborted' = out.m.aborted
           /\ ret' = out.ret
           /\ lastCall' = [site |-> pc, kind |-> script[pc].kind,
                           from |-> callCounter, to |-> out.m.counter,
                           returned |-> ~out.m.aborted, bar |-> bar]
           /\ siteSlots' = IF siteSlots[pc] < 0
                           THEN [siteSlots EXCEPT ![pc] = callCounter]
                           ELSE siteSlots
    /\ pc' = pc + 1
    /\ UNCHANGED <<taVars, script, bar, market, skipped, plotVars, lexVars,
                   stratVars, jsVars>>

\* the title argument of a plot call as it reaches the stdlib.  A keyword
\* argument is lowered to an object literal, `{ opsv2_title: T }`, in the
\* place of the second positional argument; each evaluation of the literal
\* makes a new object, named here by its text and by the bar and call site
\* that made it
TitleArgument(site, atBar, atSite) ==
    IF "kw" \in DOMAIN site
    THEN "{ opsv2_title: " \o site.title \o " }@" \o ToString(<<atBar, atSite>>)
    ELSE site.title

\* the script reaches a plot call: ui.plot hands value and title to
\* ctx.registerPlot
CallPlot ==
    /\ ~aborted
    /\ pc \in 1 .. Len(script)
    /\ script[pc].kind = "plot"
    /\ LET value == IF script[pc].series = "ret" THEN ret ELSE market.close
           title == TitleArgument(script[pc], bar, pc)
       IN  /\ plots' = RegisterPlot(plots, bar, value, title)
           /\ plotLog' = [plotLog EXCEPT ![Len(plotLog)] =
                  (title :>
                      [value |-> value,
                       calls |-> IF title \in DOMAIN @
                                 THEN @[title].calls + 1 ELSE 1]) @@ @]
    /\ pc' = pc + 1
    /\ UNCHANGED <<states, callCounter, ret, taVars, script, bar, market,
                   aborted, meta, made, log, lastCall, siteSlots, skipped,
                   lexVars, stratVars, jsVars>>

\* the strategy state as a record, and the record of a strategy call
StrategyState == [position |-> position, cash |-> cash, trades |-> trades]
CallRecord(op, id, dir, qty) ==
    [ op |-> op, id |-> id, dir |-> dir, qty |-> qty, close |-> market.close,
      n |-> lastOp.n + 1, position |-> position, cash |-> cash,
      trades |-> trades ]

\* the script reaches a strategy.entry call
CallStrategy ==
    /\ ~aborted
    /\ pc \in 1 .. Len(script)
    /\ script[pc].kind = "entry"
    /\ \E st \in {Entry(StrategyState, market.close, script[pc].id,
                         script[pc].dir, script[pc].qty)} :
           /\ position' = st.position
           /\ cash' = st.cash
           /\ trades' = st.trades
    /\ lastOp' = CallRecord("entry", script[pc].id, script[pc].dir, script[pc].qty)
    /\ pc' = pc + 1
    /\ UNCHANGED <<states, callCounter, ret, taVars, script, bar, market,
                   aborted, meta, made, log, lastCall, siteSlots, skipped,
                   plotVars, lexVars, jsVars>>

\* the script's control flow passes over a call site that stands in an `if`
SkipSite ==
    /\ ~aborted
    /\ pc \in 1 .. Len(script)
    /\ script[pc].cond
    /\ pc' = pc + 1
    /\ skipped' = TRUE
    /\ UNCHANGED <<states, callCounter, ret, taVars, script, bar, market,
                   aborted, meta, made, log, lastCall, siteSlots, plotVars,
                   lexVars, stratVars, jsVars>>

\* the script has returned; the runner calls ctx.finalizeBar()
EndBar ==
    /\ ~aborted
    /\ pc = Len(script) + 1
    /\ pc' = 0
    /\ plots' = FinalizeBar(plots, bar).plots
    /\ bar' = FinalizeBar(plots, bar).currentBarIndex
    /\ UNCHANGED <<states, callCounter, ret, taVars, script, market, aborted,
                   meta, made, log, lastCall, siteSlots, skipped, plotLog,
                   lexVars, stratVars, jsVars>>

InitCtx ==
    /\ states = <<>>
    /\ callCounter = 0
    /\ ret = NaN
    /\ kind = "none"
    /\ hist = <<>>
    /\ lens = <<>>
    /\ script \in Scripts
    /\ pc = 0
    /\ bar = 0
    /\ market = [close |-> Num(0), volume |-> Num(0)]
    /\ aborted = FALSE
    /\ meta = <<>>
    /\ made = 0
    /\ log = <<>>
    /\ lastCall = [site |-> 0]
    /\ siteSlots = [i \in 1 .. Len(script) |-> -1]
    /\ skipped = FALSE
    /\ plots = <<>>
    /\ plotLog = <<>>
    /\ LexerAtStart
    /\ StrategyAtStart
    /\ TranspilerAtStart

NextCtx ==
    \/ \E close \in Closes, volume \in Volumes : BeginBar(close, volume)
    \/ CallSite
    \/ CallPlot
    \/ CallStrategy
    \/ SkipSite
    \/ EndBar

SpecCtx == InitCtx /\ [][NextCtx]_vars

\* scripts of plot calls: title passed positionally and by keyword, in every
\* bar and under an `if`
AlwaysPlot(title, series) == [PlotSite(title, series) EXCEPT !.cond = FALSE]
KwPlot(title, series) == AlwaysPlot(title, series) @@ [kw |-> TRUE]

PlotScripts ==
    { <<AlwaysPlot("A", "close"), KwPlot("B", "close")>>,
      <<PlotSite("A", "close"), KwPlot("A", "close")>> }

InitPlot ==
    /\ states = <<>>
    /\ callCounter = 0
    /\ ret = NaN
    /\ kind = "none"
    /\ hist = <<>>
    /\ lens = <<>>
    /\ script \in PlotScripts
    /\ pc = 0
    /\ bar = 0
    /\ market = [close |-> Num(0), volume |-> Num(0)]
    /\ aborted = FALSE
    /\ meta = <<>>
    /\ made = 0
    /\ log = <<>>
    /\ lastCall = [site |-> 0]
    /\ siteSlots = [i \in 1 .. Len(script) |-> -1]
    /\ skipped = FALSE
    /\ plots = <<>>
    /\ plotLog = <<>>
    /\ LexerAtStart
    /\ StrategyAtStart
    /\ TranspilerAtStart

NextPlot ==
    \/ \E close \in Closes, volume \in Volumes : BeginBar(close, volume)
    \/ CallPlot
    \/ SkipSite
    \/ EndBar

SpecPlot == InitPlot /\ [][NextPlot]_vars

\* the same runner on the scripts of SlotScripts
InitSlots ==
    /\ states = <<>>
    /\ callCounter = 0
    /\ ret = NaN
    /\ kind = "none"
    /\ hist = <<>>
    /\ lens = <<>>
    /\ script \in SlotScripts
    /\ pc = 0
    /\ bar = 0
    /\ market = [close |-> Num(0), volume |-> Num(0)]
    /\ aborted = FALSE
    /\ meta = <<>>
    /\ made = 0
    /\ log = <<>>
    /\ lastCall = [site |-> 0]
    /\ siteSlots = [i \in 1 .. Len(script) |-> -1]
    /\ skipped = FALSE
    /\ plots = <<>>
    /\ plotLog = <<>>
    /\ LexerAtStart
    /\ StrategyAtStart
    /\ TranspilerAtStart

SpecSlots == InitSlots /\ [][NextCtx]_vars

----------------------------------------------------------------------------
(* The strategy engine driven call by call, at any prices.                 *)

Prices == {Num(1), Num(2), Num(4)}
Qtys == {Num(1), Num(3)}
Dirs == {"long", "short"}

\* the runner assigns the close of a new bar
SetClose(close) ==
    /\ close # market.close
    /\ market' = [market EXCEPT !.close = close]
    /\ UNCHANGED <<states, callCounter, ret, taVars, script, pc, bar, aborted,
                   meta, made, log, lastCall, siteSlots, skipped, plotVars,
                   lexVars, stratVars, jsVars>>

\* a strategy call changes the strategy fields of the Context only
StrategyStep(st, call) ==
    /\ lastOp.n < MaxOps
    /\ position' = st.position
    /\ cash' = st.cash
    /\ trades' = st.trades
    /\ lastOp' = call
    /\ UNCHANGED <<states, callCounter, ret, taVars, ctxVars, plotVars, lexVars, jsVars>>

StrategyEntry(dir, qty) ==
    StrategyStep(Entry(StrategyState, market.close, "E", dir, qty),
                 CallRecord("entry", "E", dir, qty))

StrategyClose ==
    StrategyStep(Close(StrategyState, market.close, "E"),
                 CallRecord("close", "E", "", Num(0)))

StrategyCloseAll ==
    StrategyStep(CloseAll(StrategyState, market.close, <<>>),
                 CallRecord("close_all", "", "", Num(0)))

InitStrategy ==
    /\ StrategyAtStart
    /\ TranspilerAtStart
    /\ LexerAtStart
    /\ states = <<>>
    /\ callCounter = 0
    /\ ret = NaN
    /\ kind = "none"
    /\ hist = <<>>
    /\ lens = <<>>
    /\ script = <<>>
    /\ pc = 0
    /\ bar = 0
    /\ market = [close |-> Num(0), volume |-> Num(0)]
    /\ aborted = FALSE
    /\ meta = <<>>
    /\ made = 0
    /\ log = <<>>
    /\ lastCall = [site |-> 0]
    /\ siteSlots = <<>>
    /\ skipped = FALSE
    /\ plots = <<>>
    /\ plotLog = <<>>

NextStrategy ==
    \/ \E close \in Prices : SetClose(close)
    \/ \E dir \in Dirs, qty \in Qtys : StrategyEntry(dir, qty)
    \/ StrategyClose
    \/ StrategyCloseAll

SpecStrategy == InitStrategy /\ [][NextStrategy]_vars

----------------------------------------------------------------------------
(* The layout shaper: PineScriptTokenSource.nextToken on top of the        *)
(* generated scanner.  A token is [type, text, column]; text matters for   *)
(* LBEG only and is a sequence of characters.                              *)

Top(stack) == stack[Len(stack)]

\* createVirtualToken(type, text, original)
CreateVirtualToken(type, original) ==
    [type |-> type, text |-> <<>>, column |-> original.column]

\* text.lastIndexOf('\n'), 1-based, 0 when there is none
RECURSIVE LastIndexOfNewline(_, _)
LastIndexOfNewline(text, i) ==
    IF i = 0 THEN 0
    ELSE IF text[i] = "\n" THEN i ELSE LastIndexOfNewline(text, i - 1)

\* indentStr.replace(/\t/g, "    ").length
RECURSIVE ExpandedLength(_, _)
ExpandedLength(str, i) ==
    IF i > Len(str) THEN 0
    ELSE (IF str[i] = "\t" THEN 4 ELSE 1) + ExpandedLength(str, i + 1)

\* the indent width nextToken computes from the text of an LBEG token
IndentLength(text) ==
    LET lastNewLineIndex == LastIndexOfNewline(text, Len(text))
        indentStr == IF lastNewLineIndex = 0 THEN text
                     ELSE SubSeq(text, lastNewLineIndex + 1, Len(text))
    IN  ExpandedLength(indentStr, 1)

\* a dedent loop that pops the levels without creating END tokens
PopLevelsSilently(stack, indentLength, tokensToEmit, triggerToken) ==
    [ indentStack |-> SelectSeq(stack, LAMBDA e : e = 0 \/ e <= indentLength),
      tokensToEmit |-> tokensToEmit ]

\* a dedent loop that pops one level and stops
PopLevelsOnce(stack, indentLength, tokensToEmit, triggerToken) ==
    IF Len(stack) > 1 /\ indentLength < Top(stack)
    THEN [ indentStack |-> SubSeq(stack, 1, Len(stack) - 1),
           tokensToEmit |-> Append(tokensToEmit,
                                   CreateVirtualToken("END", triggerToken)) ]
    ELSE [ indentStack |-> stack, tokensToEmit |-> tokensToEmit ]

\* while (indentStack.length > 1 && indentLength < top) { pop; push END }
RECURSIVE PopLevels(_, _, _, _)
PopLevels(stack, indentLength, tokensToEmit, triggerToken) ==
    IF Len(stack) > 1 /\ indentLength < Top(stack)
    THEN PopLevels(SubSeq(stack, 1, Len(stack) - 1), indentLength,
                   Append(tokensToEmit, CreateVirtualToken("END", triggerToken)),
                   triggerToken)
    ELSE [ indentStack |-> stack, tokensToEmit |-> tokensToEmit ]

\* a queueing step that leaves a deferred trigger where it is, in front of the
\* virtual tokens
QueueTokensBehindTrigger(pending, tokensToEmit, triggerToken, isEOF) ==
    LET queued == pending \o tokensToEmit
    IN  IF isEOF THEN Append(queued, triggerToken) ELSE queued

\* handleIndentation, "4. Queue Tokens" and the EOF push: the pending queue
\* after the virtual tokens have been queued
QueueTokens(pending, tokensToEmit, triggerToken, isEOF) ==
    LET queued ==
            IF triggerToken.type # "LBEG" /\ ~isEOF
            THEN IF pending = <<>> THEN tokensToEmit
                 ELSE SubSeq(pending, 1, Len(pending) - 1) \o tokensToEmit
                          \o <<pending[Len(pending)]>>
            ELSE pending \o tokensToEmit
    IN  IF isEOF THEN Append(queued, triggerToken) ELSE queued

\* handleIndentation(indentLength, triggerToken, isEOF) on the shaper record
\* lx = [indentStack, parenLevel, pendingTokens, indentUnit]: the record after
\* the call and the token returned
HandleIndentation(lx, indentLength, triggerToken, isEOF) ==
    LET currentIndent == Top(lx.indentStack)
    IN  IF indentLength > currentIndent
        THEN [ lx |-> [lx EXCEPT
                          !.indentUnit = IF @ = 0 THEN indentLength - currentIndent
                                         ELSE @,
                          !.indentStack = Append(@, indentLength)],
               ret |-> CreateVirtualToken("BEGIN", triggerToken) ]
        ELSE IF indentLength < currentIndent
        THEN LET popped == PopLevels(lx.indentStack, indentLength,
                               <<CreateVirtualToken("LEND", triggerToken)>>,
                               triggerToken)
                 tokensToEmit ==
                     IF Len(popped.indentStack) > 0
                     THEN Append(popped.tokensToEmit,
                                 CreateVirtualToken("LEND", triggerToken))
                     ELSE popped.tokensToEmit
                 queued == QueueTokens(lx.pendingTokens, tokensToEmit,
                                       triggerToken, isEOF)
             IN  [ lx |-> [lx EXCEPT !.indentStack = popped.indentStack,
                                     !.pendingTokens = Tail(queued)],
                   ret |-> Head(queued) ]
        ELSE [ lx |-> lx,
               ret |-> IF triggerToken.type = "LBEG"
                       THEN CreateVirtualToken("LEND", triggerToken)
                       ELSE triggerToken ]

\* nextToken() when nothing is pending and the scanner produces t.  An LBEG
\* inside brackets is returned as it is because LBEG is on the default
\* channel; getChannelWorks is whether the scanner object has the getChannel
\* method that the test calls (without it the call throws a TypeError).
NextToken(lx, t, getChannelWorks) ==
    LET level == IF t.type \in {"LPAR", "LSQBR"} THEN lx.parenLevel + 1
                 ELSE IF t.type \in {"RPAR", "RSQBR"} /\ lx.parenLevel > 0
                      THEN lx.parenLevel - 1
                      ELSE lx.parenLevel
        lx1 == [lx EXCEPT !.parenLevel = level]
    IN  IF t.type = "LBEG"
        THEN IF level > 0
             THEN [ lx |-> lx1, ret |-> t, thrown |-> ~getChannelWorks ]
             ELSE HandleIndentation(lx1, IndentLength(t.text), t, FALSE)
                      @@ [thrown |-> FALSE]
        ELSE IF t.column = 0 /\ t.type # "EOF" /\ Len(lx1.indentStack) > 1
        THEN HandleIndentation([lx1 EXCEPT !.pendingTokens = Append(@, t)],
                               0, t, FALSE) @@ [thrown |-> FALSE]
        ELSE IF t.type = "EOF"
        THEN HandleIndentation(lx1, 0, t, TRUE) @@ [thrown |-> FALSE]
        ELSE [ lx |-> lx1, ret |-> t, thrown |-> FALSE ]

\* the texts of the LBEG tokens of the model: one line break, "\n" or "\r",
\* and up to MaxIndentChars spaces and tabs
RECURSIVE Blanks(_)
Blanks(n) ==
    IF n = 0 THEN {<<>>}
    ELSE Blanks(n - 1) \cup
         {Append(b, c) : b \in {x \in Blanks(n - 1) : Len(x) = n - 1},
                         c \in {" ", "\t"}}

LbegTexts == {<<br>> \o b : br \in {"\n", "\r"}, b \in Blanks(MaxIndentChars)}

\* the tokens the scanner can produce next; a token can start at column 0
\* only at the start of the input or after a "\n" that ends an LBEG
ScannerTokens ==
    LET columns == IF lineStart THEN {0, 1} ELSE {1}
    IN  {[type |-> "LBEG", text |-> x, column |-> c] :
            x \in LbegTexts, c \in columns}
        \cup {[type |-> k, text |-> <<>>, column |-> c] :
                k \in {"LPAR", "RPAR", "LSQBR", "RSQBR", "ID", "EOF"},
                c \in columns}

CountType(tokens, type) ==
    Cardinality({i \in DOMAIN tokens : tokens[i].type = type})

\* nextToken() with an empty pending queue: the scanner is asked for a token
ReadToken(t, getChannelWorks) ==
    /\ lexStatus = "run"
    /\ pendingTokens = <<>>
    /\ t.type = "EOF" \/ nRead < MaxTokens
    /\ \E out \in {NextToken([indentStack |-> indentStack,
                              parenLevel |-> parenLevel,
                              pendingTokens |-> pendingTokens,
                              indentUnit |-> indentUnit], t, getChannelWorks)} :
        /\ indentStack' = out.lx.indentStack
        /\ parenLevel' = out.lx.parenLevel
        /\ indentUnit' = out.lx.indentUnit
        /\ atRead' = [stack |-> indentStack, parenBefore |-> parenLevel,
                      paren |-> out.lx.parenLevel]
        /\ physical' = t
        /\ nRead' = nRead + 1
        /\ lineStart' = (t.type = "LBEG" /\ t.text[Len(t.text)] = "\n")
        /\ IF out.thrown
           THEN /\ lexStatus' = "thrown"
                /\ UNCHANGED <<pendingTokens, delivered, burst, sent,
                               generated, handedOver, jsVars>>
           ELSE /\ pendingTokens' = out.lx.pendingTokens
                /\ delivered' = out.ret
                /\ burst' = <<out.ret>> \o out.lx.pendingTokens
                /\ sent' = <<out.ret>>
                /\ generated' =
                       [k \in {"BEGIN", "END"} |->
                           generated[k]
                           + CountType(<<out.ret>> \o out.lx.pendingTokens, k)]
                /\ handedOver' =
                       [k \in {"BEGIN", "END"} |->
                           handedOver[k] + CountType(<<out.ret>>, k)]
                /\ lexStatus' = IF out.ret.type = "EOF" THEN "eof" ELSE "run"
    /\ UNCHANGED <<states, callCounter, ret, taVars, ctxVars, plotVars,
                   stratVars, jsVars>>

\* nextToken() with pending tokens: the first of them is returned
FlushToken ==
    /\ lexStatus = "run"
    /\ pendingTokens # <<>>
    /\ delivered' = Head(pendingTokens)
    /\ pendingTokens' = Tail(pendingTokens)
    /\ sent' = Append(sent, Head(pendingTokens))
    /\ handedOver' = [k \in {"BEGIN", "END"} |->
                         handedOver[k] + CountType(<<Head(pendingTokens)>>, k)]
    /\ lexStatus' = IF Head(pendingTokens).type = "EOF" THEN "eof" ELSE "run"
    /\ UNCHANGED <<indentStack, parenLevel, indentUnit, physical, atRead, burst,
                   generated, nRead, lineStart, jsVars>>
    /\ UNCHANGED <<states, callCounter, ret, taVars, ctxVars, plotVars,
                   stratVars, jsVars>>

InitLex ==
    /\ LexerAtStart
    /\ states = <<>>
    /\ callCounter = 0
    /\ ret = NaN
    /\ kind = "none"
    /\ hist = <<>>
    /\ lens = <<>>
    /\ script = <<>>
    /\ pc = 0
    /\ bar = 0
    /\ market = [close |-> Num(0), volume |-> Num(0)]
    /\ aborted = FALSE
    /\ meta = <<>>
    /\ made = 0
    /\ log = <<>>
    /\ lastCall = [site |-> 0]
    /\ siteSlots = <<>>
    /\ skipped = FALSE
    /\ plots = <<>>
    /\ plotLog = <<>>
    /\ StrategyAtStart
    /\ TranspilerAtStart

NextLex ==
    \/ \E t \in ScannerTokens, getChannelWorks \in BOOLEAN :
           ReadToken(t, getChannelWorks)
    \/ FlushToken

SpecLex == InitLex /\ [][NextLex]_vars

----------------------------------------------------------------------------
(* transpile and parse.  A Pine source is taken as the sequence of what    *)
(* the parse run meets in it, in reading order: a character no lexer rule  *)
(* matches ("lexer"), a token the parser does not expect ("parser"), or a  *)
(* line break between brackets ("break").  The finding at position i is on *)
(* line i, column 0.                                                       *)

FindingKinds == {"lexer", "parser", "break"}

\* ErrorCollector.syntaxError: the record pushed
ParserError(line, column, message) ==
    [line |-> line, column |-> column, message |-> message]

\* parser.opsv2_script() pulling the tokens of the source from the token
\* source; run = [lexerErrors, parserErrors, thrown].  On a line break
\* between brackets nextToken calls this.getChannel(): the call throws through
\* the parser, or the raw LBEG comes back and the parser reports it.
RECURSIVE Opsv2Script(_, _, _, _)
Opsv2Script(src, i, run, getChannelWorks) ==
    IF i > Len(src) THEN run
    ELSE CASE src[i] = "lexer" ->
                  Opsv2Script(src, i + 1,
                      [run EXCEPT !.lexerErrors =
                           Append(@, ParserError(i, 0, "token recognition error"))],
                      getChannelWorks)
           [] src[i] = "parser" ->
                  Opsv2Script(src, i + 1,
                      [run EXCEPT !.parserErrors =
                           Append(@, ParserError(i, 0, "mismatched input"))],
                      getChannelWorks)
           [] src[i] = "break" ->
                  IF getChannelWorks
                  THEN Opsv2Script(src, i + 1,
                           [run EXCEPT !.parserErrors =
                                Append(@, ParserError(i, 0, "extraneous input"))],
                           getChannelWorks)
                  ELSE [run EXCEPT !.thrown = TRUE]

\* parse(source)
Parse(src, getChannelWorks) ==
    LET run == Opsv2Script(src, 1, [lexerErrors |-> <<>>, parserErrors |-> <<>>,
                                    thrown |-> FALSE], getChannelWorks)
        allErrors == run.lexerErrors \o run.parserErrors
    IN  IF run.thrown
        THEN [thrown |-> TRUE, collected |-> allErrors]
        ELSE [thrown |-> FALSE, collected |-> allErrors, tree |-> src,
              errorCount |-> Len(allErrors), errors |-> allErrors]

\* transpile(source): what it returns or throws; collected is the history of
\* the diagnostics the two listeners were handed
Transpile(src, getChannelWorks) ==
    LET parsed == Parse(src, getChannelWorks)
    IN  IF parsed.thrown
        THEN [status |-> "thrown", error |-> [name |-> "TypeError"],
              collected |-> parsed.collected]
        ELSE IF parsed.errorCount > 0
        THEN [status |-> "thrown",
              error |-> [name |-> "Error",
                         message |-> <<"Parsing failed with", parsed.errorCount,
                                       "error(s)">>,
                         errors |-> parsed.errors],
              collected |-> parsed.collected]
        ELSE [status |-> "returned", js |-> <<"visit", parsed.tree>>,
              collected |-> parsed.collected]

RECURSIVE SeqsUpTo(_, _)
SeqsUpTo(S, n) ==
    IF n = 0 THEN {<<>>}
    ELSE LET shorter == SeqsUpTo(S, n - 1)
         IN  shorter \cup {Append(q, x) : q \in shorter, x \in S}

TranspileCall(getChannelWorks) ==
    /\ emitted.status = "none"
    /\ emitted' = Transpile(pineSource, getChannelWorks)
    /\ UNCHANGED <<states, callCounter, ret, taVars, ctxVars, plotVars, lexVars,
                   stratVars, pineSource, jsRun>>

InitTranspile ==
    /\ pineSource \in SeqsUpTo(FindingKinds, MaxFindings)
    /\ emitted = [status |-> "none"]
    /\ jsRun = [state |-> "idle"]
    /\ LexerAtStart
    /\ StrategyAtStart
    /\ states = <<>>
    /\ callCounter = 0
    /\ ret = NaN
    /\ kind = "none"
    /\ hist = <<>>
    /\ lens = <<>>
    /\ script = <<>>
    /\ pc = 0
    /\ bar = 0
    /\ market = [close |-> Num(0), volume |-> Num(0)]
    /\ aborted = FALSE
    /\ meta = <<>>
    /\ made = 0
    /\ log = <<>>
    /\ lastCall = [site |-> 0]
    /\ siteSlots = <<>>
    /\ skipped = FALSE
    /\ plots = <<>>
    /\ plotLog = <<>>

NextTranspile == \E getChannelWorks \in BOOLEAN : TranspileCall(getChannelWorks)
SpecTranspile == InitTranspile /\ [][NextTranspile]_vars

----------------------------------------------------------------------------
(* The visitor's if and for expressions, and the run of the JavaScript it  *)
(* emits for them.  A block is the sequence of the kinds of its            *)
(* statements: "expr" for a statement that is an expression or a call,     *)
(* "assign" for a definition or an assignment.  The emitted text is kept   *)
(* as its syntax tree.  The value of expression statement number tag is    *)
(* kept symbolic as <<tag, env>>, env being the value of the loop variable *)
(* (for) or the number of the branch (if: 1 then, 2 else).                 *)

StmtKinds == {"expr", "assign"}
Blocks == SeqsUpTo(StmtKinds, MaxStmts) \ {<<>>}
ExprValue(tag, env) == <<tag, env>>

\* visitLocal_stmts_list: `return` is put before the last statement when it
\* is an expression
VisitLocal_stmts_list(block) ==
    [j \in 1 .. Len(block) |->
        IF j = Len(block) /\ block[j] = "expr"
        THEN [type |-> "return", tag |-> j]
        ELSE [type |-> block[j], tag |-> j]]

\* visitStmts_block -> visitFun_body_multiline -> visitLocal_stmts_multiline
VisitStmts_block(block) == VisitLocal_stmts_list(block)

\* visitIf_expr: (() => { if (cond) {...} else {...} })()
VisitIf_expr(ctx) ==
    [type |-> "iife",
     body |-> [type |-> "if", test |-> ctx.cond,
               consequent |-> VisitStmts_block(ctx.thenBlock),
               hasAlternate |-> ctx.hasElse,
               alternate |-> IF ctx.hasElse THEN VisitStmts_block(ctx.elseBlock)
                             ELSE <<>>]]

\* visitFor_expr: (() => { for (let i = a; i <= b; i += step) {...} })()
VisitFor_expr(ctx) ==
    [type |-> "iife",
     body |-> [type |-> "for", init |-> ctx.from, end |-> ctx.to,
               step |-> IF ctx.hasBy THEN ctx.by ELSE 1,
               body |-> VisitStmts_block(ctx.block)]]

\* visitArith_expr
VisitArith_expr(ctx) ==
    IF ctx.kind = "if" THEN VisitIf_expr(ctx) ELSE VisitFor_expr(ctx)

IfExprs ==
    { [kind |-> "if", cond |-> c, hasElse |-> e, thenBlock |-> t, elseBlock |-> f] :
        c \in BOOLEAN, e \in BOOLEAN, t \in Blocks, f \in Blocks }
ForExprs ==
    { [kind |-> "for", from |-> a, to |-> b, hasBy |-> h, by |-> st, block |-> body] :
        a \in 1 .. 2, b \in 0 .. MaxTo, h \in BOOLEAN, st \in 1 .. 2,
        body \in Blocks }

JsUnchanged ==
    UNCHANGED <<states, callCounter, ret, taVars, ctxVars, plotVars, lexVars,
                stratVars, pineSource>>

\* the visitor emits the JavaScript of the expression
EmitJs ==
    /\ emitted.status = "none"
    /\ emitted' = [status |-> "returned", js |-> VisitArith_expr(pineSource)]
    /\ jsRun' = [state |-> "ready", i |-> 0, env |-> 0, block |-> <<>>,
                 idx |-> 0, entered |-> 0, value |-> Undefined]
    /\ JsUnchanged

\* the arrow function is called: `let i = a`, or the test of the if; a
\* function that ends without `return` gives undefined
CallIife ==
    /\ jsRun.state = "ready"
    /\ LET body == emitted.js.body
       IN  jsRun' =
             IF body.type = "for"
             THEN [jsRun EXCEPT !.state = "test", !.i = body.init]
             ELSE IF body.test
             THEN [jsRun EXCEPT !.state = "block", !.env = 1, !.idx = 1,
                                !.block = body.consequent, !.entered = 1]
             ELSE IF body.hasAlternate
             THEN [jsRun EXCEPT !.state = "block", !.env = 2, !.idx = 1,
                                !.block = body.alternate, !.entered = 1]
             ELSE [jsRun EXCEPT !.state = "done",
                                !.value = Undefined]
    /\ UNCHANGED emitted
    /\ JsUnchanged

\* i <= end
ForTest ==
    /\ jsRun.state = "test"
    /\ LET body == emitted.js.body
       IN  jsRun' =
             IF jsRun.i <= body.end
             THEN [jsRun EXCEPT !.state = "block", !.env = jsRun.i, !.idx = 1,
                                !.block = body.body, !.entered = @ + 1]
             ELSE [jsRun EXCEPT !.state = "done",
                                !.value = Undefined]
    /\ UNCHANGED emitted
    /\ JsUnchanged

\* one statement of the block: `return e` leaves the arrow function
ExecStatement ==
    /\ jsRun.state = "block"
    /\ LET stmt == jsRun.block[jsRun.idx]
       IN  jsRun' =
             IF stmt.type = "return"
             THEN [jsRun EXCEPT !.state = "done",
                                !.value = ExprValue(stmt.tag, jsRun.env)]
             ELSE IF jsRun.idx < Len(jsRun.block)
             THEN [jsRun EXCEPT !.idx = @ + 1]
             ELSE IF emitted.js.body.type = "for"
             THEN [jsRun EXCEPT !.state = "update"]
             ELSE [jsRun EXCEPT !.state = "done",
                                !.value = Undefined]
    /\ UNCHANGED emitted
    /\ JsUnchanged

\* i += step
ForUpdate ==
    /\ jsRun.state = "update"
    /\ jsRun' = [jsRun EXCEPT !.state = "test", !.i = @ + emitted.js.body.step]
    /\ UNCHANGED emitted
    /\ JsUnchanged

InitExpr ==
    /\ pineSource \in IfExprs \cup ForExprs
    /\ emitted = [status |-> "none"]
    /\ jsRun = [state |-> "idle"]
    /\ LexerAtStart
    /\ StrategyAtStart
    /\ states = <<>>
    /\ callCounter = 0
    /\ ret = NaN
    /\ kind = "none"
    /\ hist = <<>>
    /\ lens = <<>>
    /\ script = <<>>
    /\ pc = 0
    /\ bar = 0
    /\ market = [close |-> Num(0), volume |-> Num(0)]
    /\ aborted = FALSE
    /\ meta = <<>>
    /\ made = 0
    /\ log = <<>>
    /\ lastCall = [site |-> 0]
    /\ siteSlots = <<>>
    /\ skipped = FALSE
    /\ plots = <<>>
    /\ plotLog = <<>>

NextExpr ==
    \/ EmitJs
    \/ CallIife
    \/ ForTest
    \/ ExecStatement
    \/ ForUpdate

SpecExpr == InitExpr /\ [][NextExpr]_vars

----------------------------------------------------------------------------
(* The naive reference of the test suite (NaiveTA), over the complete      *)
(* history.                                                                *)

\* NaiveTA.getSlice(length): the trailing length samples, [] when too few
GetSlice(history, length) ==
    IF Len(history) < length THEN <<>>
    ELSE SubSeq(history, Len(history) - length + 1, Len(history))

\* NaiveTA.sma(length)
NaiveSma(history, length) ==
    LET slice == GetSlice(history, length)
    IN  IF Len(slice) < length THEN NaN
        ELSE FDiv(SumFrom(slice, 0, Len(slice), Num(0)), Num(length))

\* NaiveTA.wma(length)
NaiveWma(history, length) ==
    LET slice == GetSlice(history, length)
        sum == WeightedFrom(slice, 0, 0, Len(slice), Num(0))
        norm == (Len(slice) * (Len(slice) + 1)) \div 2
    IN  IF Len(slice) < length THEN NaN ELSE FDiv(sum, Num(norm))

\* slice.reduce((a, b) => a + Math.pow(b - mean, 2), 0)
RECURSIVE SqDevFrom(_, _, _, _)
SqDevFrom(slice, i, mean, acc) ==
    IF i >= Len(slice) THEN acc
    ELSE LET d == FSub(At(slice, i), mean)
         IN  SqDevFrom(slice, i + 1, mean, FAdd(acc, FMul(d, d)))

\* NaiveTA.bb(length, mult), as the triple <<mean, variance, mult>>
NaiveBb(history, length, mult) ==
    LET slice == GetSlice(history, length)
        mean == FDiv(SumFrom(slice, 0, Len(slice), Num(0)), Num(length))
        variance == FDiv(SqDevFrom(slice, 0, mean, Num(0)), Num(length))
    IN  IF Len(slice) < length THEN <<NaN, NaN, mult>>
        ELSE <<mean, variance, mult>>

\* Math.min(a, b)
FMin(a, b) ==
    IF IsNaN(a) \/ IsNaN(b) THEN NaN ELSE IF FLe(a, b) THEN a ELSE b

\* Math.max(...slice) / Math.min(...slice) of a non-empty slice
RECURSIVE Extremum(_, _, _, _)
Extremum(slice, i, acc, isMin) ==
    IF i >= Len(slice) THEN acc
    ELSE Extremum(slice, i + 1,
                  IF isMin THEN FMin(acc, At(slice, i)) ELSE FMax(acc, At(slice, i)),
                  isMin)

\* NaiveTA.highest(length)
NaiveHighest(history, length) ==
    LET slice == GetSlice(history, length)
    IN  IF Len(slice) < length THEN NaN
        ELSE Extremum(slice, 1, slice[1], FALSE)

\* NaiveTA.lowest(length)
NaiveLowest(history, length) ==
    LET slice == GetSlice(history, length)
    IN  IF Len(slice) < length THEN NaN
        ELSE Extremum(slice, 1, slice[1], TRUE)

\* for (i = slice.length - 1; i >= 0; i--) if (slice[i] > best) {...}: the
\* index of the extremum met first when scanning backwards, -1 if none
RECURSIVE ScanBack(_, _, _, _, _)
ScanBack(slice, i, best, bestIdx, isMin) ==
    IF i < 0 THEN bestIdx
    ELSE IF (IF isMin THEN FLt(At(slice, i), best) ELSE FGt(At(slice, i), best))
         THEN ScanBack(slice, i - 1, At(slice, i), i, isMin)
         ELSE ScanBack(slice, i - 1, best, bestIdx, isMin)

\* NaiveTA.highestbars(length)
NaiveHighestbars(history, length) ==
    LET slice == GetSlice(history, length)
    IN  IF Len(slice) < length THEN NaN
        ELSE Num(ScanBack(slice, Len(slice) - 1, <<-1, 0>>, -1, FALSE)
                 - (length - 1))

\* NaiveTA.lowestbars(length)
NaiveLowestbars(history, length) ==
    LET slice == GetSlice(history, length)
    IN  IF Len(slice) < length THEN NaN
        ELSE Num(ScanBack(slice, Len(slice) - 1, <<1, 0>>, -1, TRUE)
                 - (length - 1))

----------------------------------------------------------------------------
(* Shorthands for the claims.                                              *)

Called == Len(hist) > 0
CurLen == lens[Len(lens)]
ConstantLength == \A i \in 1 .. Len(lens) : lens[i] = lens[1]
FiniteSamples == \A i \in 1 .. Len(hist) : IsFinite(hist[i])
\* from-scratch sum of the trailing min(length, n) samples of the history
WindowSum(length) == SumFrom(hist, Max(0, Len(hist) - length), Len(hist), Num(0))

C2_SmaMatchesNaive ==
    (kind = "sma" /\ Called) => ret = NaiveSma(hist, CurLen)

\* the 0-based position in the history at which the trailing window starts
WindowStart(length) == Max(0, Len(hist) - length)
WindowIdx(length) == (WindowStart(length) + 1) .. Len(hist)

\* C3: under any schedule of lengths >= 1, wma returns NaN while fewer than
\* length samples exist and otherwise sum(i * x_i) / (length * (length + 1) / 2)
\* over the trailing length samples, x_1 the oldest.
C3_WmaWeightedMean ==
    (kind = "wma" /\ Called) =>
        ret = IF Len(hist) < CurLen THEN NaN
              ELSE FDiv(WeightedFrom(hist, WindowStart(CurLen), WindowStart(CurLen),
                                     Len(hist), Num(0)),
                        Num((CurLen * (CurLen + 1)) \div 2))

WindowSumSq(length) == SumSqFrom(hist, WindowStart(length), Len(hist), Num(0))

\* C4: under any schedule of lengths >= 1, bb returns the NaN triple while
\* fewer than length samples exist and otherwise mean and
\* max(0, sumOfSquares/length - mean^2) of the trailing length samples; its
\* running sum and sum of squares are the from-scratch sums over the trailing
\* window, and the variance is never negative.
C4_BbBands ==
    (kind = "bb" /\ Called) =>
        LET mean == FDiv(WindowSum(CurLen), Num(CurLen))
            variance == FMax(Num(0), FSub(FDiv(WindowSumSq(CurLen), Num(CurLen)),
                                          FMul(mean, mean)))
        IN  /\ states[1].sum = WindowSum(CurLen)
            /\ states[1].sumSq = WindowSumSq(CurLen)
            /\ ret = IF Len(hist) < CurLen THEN <<NaN, NaN, Mult>>
                     ELSE <<mean, variance, Mult>>
            /\ ~FLt(ret[2], Num(0))

\* v is an extremum of the trailing window: one of its samples, exceeded by
\* none of them
IsWindowExtremum(v, length, isMin) ==
    /\ \E i \in WindowIdx(length) : hist[i] = v
    /\ \A i \in WindowIdx(length) :
           ~(IF isMin THEN FLt(hist[i], v) ELSE FGt(hist[i], v))

\* the deque built from scratch over the trailing window of the history
ScratchDeque(length, isMin) ==
    RebuildDeque(hist, Len(hist) - 1, WindowStart(length), <<>>, <<>>, isMin)

\* C5: under any schedule of lengths >= 1, once length samples exist highest
\* returns the maximum and lowest the minimum of the trailing length samples,
\* and the deque is the one a from-scratch rebuild over that window gives (in
\* particular on a bar that reduced the length, and on the bars after it).
\* Stated for finite samples, which are the ones an extremum is defined on.
C5_ExtremeOfWindow ==
    (kind \in {"highest", "lowest"} /\ Called /\ FiniteSamples
        /\ Len(hist) >= CurLen) =>
        /\ IsWindowExtremum(ret, CurLen, kind = "lowest")
        /\ states[1].dequeVals = ScratchDeque(CurLen, kind = "lowest").vals

\* C6: once length samples exist, highestbars (lowestbars) returns
\* front_index - current_index, an r in -(length-1)..0 such that the sample
\* r bars back is the extremum of the trailing length samples and no more
\* recent sample of the window equals it.  Stated for finite samples.
C6_BarsOffsetOfExtreme ==
    (kind \in {"highestbars", "lowestbars"} /\ Called /\ FiniteSamples
        /\ Len(hist) >= CurLen) =>
        /\ ret[2] = 1
        /\ ret[1] = states[1].dequeIdxs[1] - (Len(hist) - 1)
        /\ -(CurLen - 1) <= ret[1] /\ ret[1] <= 0
        /\ IsWindowExtremum(hist[Len(hist) + ret[1]], CurLen, kind = "lowestbars")
        /\ \A i \in WindowIdx(CurLen) :
               i > Len(hist) + ret[1] => hist[i] # hist[Len(hist) + ret[1]]

\* C7: highest, lowest, highestbars and lowestbars return NaN on every call
\* made while fewer than length samples have been received, and a number from
\* the bar on which the length-th sample arrives.
C7_NaNUntilWarm ==
    (kind \in DequeKinds /\ Called /\ FiniteSamples) =>
        (Len(hist) < CurLen <=> IsNaN(ret))

\* C8: the k-th getPersistentState call since the last reset is handed index
\* k-1 and returns the record that lives there; initFn runs exactly when the
\* index is past the end of the table, so that every initFn run adds one
\* record and replaces none; no step removes a record or puts another one in
\* its place, so the k-th call of a later bar returns the record the k-th call
\* of the bar that created it returned.
C8_SlotIdentity ==
    [][ /\ \A k \in 1 .. Len(log') :
               /\ log'[k].idx = k - 1
               /\ log'[k].id = meta'[k].id
               /\ log'[k].created <=> log'[k].lenBefore < k
        /\ made' = Len(states')
        /\ Len(meta') = Len(states')
        /\ Len(states') >= Len(states)
        /\ \A i \in 1 .. Len(meta) : meta'[i] = meta[i] ]_vars

\* on a later bar the second call has returned, without running initFn, the
\* second record ever made, after the first call of that bar was skipped or
\* made
C8_Witness ==
    /\ bar >= 1
    /\ Len(log) >= 2
    /\ ~log[2].created
    /\ log[2].idx = 1
    /\ log[2].id = 2
    /\ made >= 2

\* C9, as the specification words it: every indicator call that returns has
\* consumed exactly one slot, and begins at the slot its call site began at on
\* the first bar.
C9_OneSlotPerCall ==
    (lastCall.site # 0 /\ lastCall.returned) =>
        /\ lastCall.to - lastCall.from = 1
        /\ lastCall.from = siteSlots[lastCall.site]

\* C9, amended: every indicator call that returns has consumed a number of
\* slots fixed by the indicator, the same on every bar - one for sma, ema and
\* rma, two for vwma, three for rsi and for macd - and, as long as no call
\* site has been skipped, begins at the slot its call site began at on the
\* first bar.
C9_FixedSlotsPerCall ==
    (lastCall.site # 0 /\ lastCall.returned) =>
        /\ lastCall.to - lastCall.from =
               CASE lastCall.kind \in {"sma", "ema", "rma"} -> 1
                 [] lastCall.kind = "vwma" -> 2
                 [] lastCall.kind \in {"rsi", "macd"} -> 3
        /\ ~skipped => lastCall.from = siteSlots[lastCall.site]

\* rsi, called after sma and vwma on a bar past the first, has consumed the
\* three slots after theirs and returned a number
C9_Witness ==
    /\ lastCall.site # 0
    /\ lastCall.kind = "rsi"
    /\ lastCall.returned
    /\ bar >= 1
    /\ lastCall.from = 3
    /\ lastCall.to = 6
    /\ siteSlots[lastCall.site] = 3
    /\ IsFinite(ret)

\* C10: a getPersistentState call made by an indicator of another type than
\* the one whose initFn made the record aborts the run; no call of a run that
\* goes on has been handed a record of another indicator type.
C10_NoCrossTypeAccess ==
    aborted \/ \A k \in 1 .. Len(log) : log[k].by = log[k].creator

\* C11: between bars, that is after any number of bars each run as "assign
\* the market fields, run the script, finalizeBar", every series of the plot
\* registry has exactly currentBarIndex entries, whichever plot calls the
\* script made or skipped and whenever a title was first registered.
C11_SeriesLengthIsBarIndex ==
    pc = 0 => \A t \in DOMAIN plots : Len(plots[t]) = bar

\* two bars are finalized; A was plotted on the first and skipped on the
\* second, B was skipped on the first and first registered on the second
C11_Witness ==
    /\ pc = 0
    /\ bar = 2
    /\ DOMAIN plots = {"A", "B"}
    /\ DOMAIN plotLog[1] = {"A"}
    /\ DOMAIN plotLog[2] = {"B"}
    /\ Len(plots["A"]) = 2
    /\ Len(plots["B"]) = 2

\* C12: for every finalized bar i and every title T of the registry,
\* series_T[i] is the value of the last registerPlot call for T made during
\* bar i, and NaN if there was none (a bar before T was first registered, a
\* bar on which the plot was skipped); a second registration on a bar
\* overwrites and adds no entry.
C12_SeriesValues ==
    \A t \in DOMAIN plots :
        /\ Len(plots[t]) <= bar + 1
        /\ \A i \in 1 .. bar :
               /\ i <= Len(plots[t])
               /\ plots[t][i] = IF t \in DOMAIN plotLog[i]
                                THEN plotLog[i][t].value ELSE NaN

\* three bars are finalized: A was not registered before the second bar, was
\* registered twice on it with the later value 2, and was skipped on the third
C12_Witness ==
    /\ pc = 0
    /\ bar = 3
    /\ "A" \in DOMAIN plots
    /\ "A" \notin DOMAIN plotLog[1]
    /\ "A" \in DOMAIN plotLog[2]
    /\ plotLog[2]["A"].calls = 2
    /\ "A" \notin DOMAIN plotLog[3]
    /\ plots["A"] = <<NaN, Num(2), NaN>>

\* the types of a token sequence
TypesOf(tokens) == [i \in DOMAIN tokens |-> tokens[i].type]
\* n END types
Ends(n) == [i \in 1 .. n |-> "END"]
\* the entries of the indent stack that are greater than w
Above(stack, w) == Cardinality({i \in DOMAIN stack : stack[i] > w})

\* C13: at every point the number of BEGIN tokens created minus the number of
\* END tokens created is the size of the indent stack minus 1; when EOF is
\* delivered as many BEGIN as END tokens have been delivered, every token
\* created has been delivered before it, and the indent stack is <<0>>.
C13_BeginEndBalance ==
    /\ generated.BEGIN - generated.END = Len(indentStack) - 1
    /\ lexStatus = "eof" =>
           /\ handedOver.BEGIN = handedOver.END
           /\ handedOver = generated
           /\ pendingTokens = <<>>
           /\ indentStack = <<0>>

\* EOF arrived two levels deep and has been delivered after LEND END END LEND
C13_Witness ==
    /\ lexStatus = "eof"
    /\ physical.type = "EOF"
    /\ Len(atRead.stack) = 3
    /\ TypesOf(sent) = <<"LEND", "END", "END", "LEND", "EOF">>
    /\ handedOver.BEGIN = 2

\* C14: an LBEG outside brackets whose indent width w is smaller than the top
\* of the indent stack produces LEND, then one END per stack entry greater
\* than w, and then a further LEND only if w is the entry left on top.
C14_DedentSequence ==
    (/\ physical.type = "LBEG"
     /\ lexStatus # "thrown"
     /\ atRead.paren = 0
     /\ IndentLength(physical.text) < Top(atRead.stack)) =>
        LET w == IndentLength(physical.text)
            n == Above(atRead.stack, w)
            landed == atRead.stack[Len(atRead.stack) - n]
        IN  /\ indentStack = SubSeq(atRead.stack, 1, Len(atRead.stack) - n)
            /\ TypesOf(burst) =
                   <<"LEND">> \o Ends(n)
                       \o (IF w = landed THEN <<"LEND">> ELSE <<>>)

C16_LbegNeverDelivered ==
    /\ delivered.type # "LBEG"
    /\ lexStatus # "thrown"

\* C17: after a token other than LBEG and EOF was read at column 0 with more
\* than one entry on the indent stack, the tokens delivered are, in this
\* order, LEND, one END per entry above 0, LEND and then that token, once; the
\* indent stack is <<0>> from the read on, so also when the token is delivered.
C17_ImplicitDedent ==
    (/\ physical.type \notin {"none", "LBEG", "EOF"}
     /\ physical.column = 0
     /\ Len(atRead.stack) > 1) =>
        /\ indentStack = <<0>>
        /\ burst = [i \in 1 .. Len(atRead.stack) + 2 |->
                       IF i = Len(atRead.stack) + 2 THEN physical
                       ELSE CreateVirtualToken(
                                IF i = 1 \/ i = Len(atRead.stack) + 1
                                THEN "LEND" ELSE "END", physical)]
        /\ sent \o pendingTokens = burst
        /\ Len(sent) >= 1

\* a closing bracket at column 0 ended a two-level block: LEND END END LEND
\* and then the bracket have been delivered
C17_Witness ==
    /\ physical.type = "RPAR"
    /\ physical.column = 0
    /\ atRead.paren = 0
    /\ Len(atRead.stack) = 3
    /\ pendingTokens = <<>>
    /\ TypesOf(sent) = <<"LEND", "END", "END", "LEND", "RPAR">>
    /\ delivered = physical

\* C18: a bar runs as reset, script body, finalizeBar: the first
\* getPersistentState call of every bar is handed slot 0, and when the
\* executor returns every plot series has its entry for the bar.
C18_ExecuteBarCompletesPlots ==
    /\ Len(log) > 0 => log[1].idx = 0
    /\ (script # <<>> /\ pc = Len(script) + 1 /\ ~aborted) =>
           \A t \in DOMAIN plots : Len(plots[t]) = bar + 1

\* a step of the run loop in which finalizeBar is called
FinalizeStep == script # <<>> /\ pc = Len(script) + 1 /\ pc' = 0

\* C19: currentBarIndex is 0 at construction, every finalizeBar call adds
\* exactly 1 to it, and no other step (reset, getPersistentState and the
\* indicator calls, registerPlot, the strategy calls, assigning the market
\* data) changes it.
C19_BarIndexSteps ==
    /\ bar = 0
    /\ [][IF FinalizeStep THEN bar' = bar + 1 ELSE bar' = bar]_vars

\* two bars are finalized, and indicator calls, plot calls or strategy calls
\* (one of them a reversal) were made on them
C19_Witness ==
    /\ bar = 2
    /\ pc = 0
    /\ \/ Len(trades) > 0
       \/ DOMAIN plots = {"A", "B"}
       \/ Len(states) >= 9

\* an entry with qty > 0 found a position of the opposite direction
IsReversal ==
    /\ lastOp.op = "entry"
    /\ FGt(lastOp.qty, Num(0))
    /\ lastOp.position.size # Num(0)
    /\ (lastOp.dir = "long") # FGt(lastOp.position.size, Num(0))

\* C20: an entry with qty > 0 against an open position of the opposite
\* direction appends exactly one trade - the old position's direction,
\* quantity |size|, entry price avgPrice, exit price the current close - adds
\* that trade's pnl to cash, and leaves the position at +qty (long) or -qty
\* (short) with avgPrice equal to the current close.
C20_ReversalClosesThenOpens ==
    IsReversal =>
        LET old == lastOp.position
            wasLong == FGt(old.size, Num(0))
            trade == trades[Len(trades)]
        IN  /\ Len(trades) = Len(lastOp.trades) + 1
            /\ SubSeq(trades, 1, Len(lastOp.trades)) = lastOp.trades
            /\ trade.direction = IF wasLong THEN "long" ELSE "short"
            /\ trade.qty = FAbs(old.size)
            /\ trade.entryPrice = old.avgPrice
            /\ trade.exitPrice = lastOp.close
            /\ trade.pnl = FMul(IF wasLong THEN FSub(lastOp.close, old.avgPrice)
                                ELSE FSub(old.avgPrice, lastOp.close),
                                FAbs(old.size))
            /\ cash = FAdd(lastOp.cash, trade.pnl)
            /\ position.size = IF lastOp.dir = "long" THEN lastOp.qty
                               ELSE FNeg(lastOp.qty)
            /\ position.avgPrice = lastOp.close

\* a long position of 4 with average price 3/2, built by two entries at
\* different prices, was reversed by a short entry of 3 at close 4
C20_Witness ==
    /\ IsReversal
    /\ lastOp.position = [size |-> Num(4), avgPrice |-> <<3, 2>>]
    /\ lastOp.dir = "short"
    /\ lastOp.close = Num(4)
    /\ position = [size |-> Num(-3), avgPrice |-> Num(4)]
    /\ cash = Num(InitialCash + 10)
    /\ Len(trades) = 1

\* an entry with qty > 0 found no position, or one of its own direction
IsAddingEntry ==
    /\ lastOp.op = "entry"
    /\ FGt(lastOp.qty, Num(0))
    /\ \/ lastOp.position.size = Num(0)
       \/ (lastOp.dir = "long") = FGt(lastOp.position.size, Num(0))

\* C21: an entry with qty > 0 while flat or in a position of the same
\* direction records no trade, leaves cash unchanged, changes size by +qty
\* (long) or -qty (short), and sets avgPrice to
\* (|size| * avgPrice + qty * close) / |size + delta|, taken on the position
\* as the call found it.
C21_EntryAveragesIn ==
    IsAddingEntry =>
        LET old == lastOp.position
            delta == IF lastOp.dir = "long" THEN lastOp.qty ELSE FNeg(lastOp.qty)
        IN  /\ trades = lastOp.trades
            /\ cash = lastOp.cash
            /\ position.size = FAdd(old.size, delta)
            /\ position.avgPrice =
                   FDiv(FAdd(FMul(FAbs(old.size), old.avgPrice),
                             FMul(lastOp.qty, lastOp.close)),
                        FAbs(FAdd(old.size, delta)))

\* a short position of 1 entered at 1 is extended by 3 at close 4: the
\* average price becomes 13/4
C21_Witness ==
    /\ IsAddingEntry
    /\ lastOp.position = [size |-> Num(-1), avgPrice |-> Num(1)]
    /\ lastOp.qty = Num(3)
    /\ lastOp.close = Num(4)
    /\ position = [size |-> Num(-4), avgPrice |-> <<13, 4>>]

\* close or close_all was called on an open position
IsClosingCall ==
    /\ lastOp.op \in {"close", "close_all"}
    /\ lastOp.position.size # Num(0)

\* C22: close(id) and close_all() on an open position append exactly one
\* trade whose pnl is (close - avgPrice) * |size| for a long and
\* (avgPrice - close) * |size| for a short position, add that pnl to cash and
\* reset the position to size 0; the trades recorded before are unchanged.
C22_CloseBooksOneTrade ==
    IsClosingCall =>
        LET old == lastOp.position
            trade == trades[Len(trades)]
        IN  /\ Len(trades) = Len(lastOp.trades) + 1
            /\ SubSeq(trades, 1, Len(lastOp.trades)) = lastOp.trades
            /\ trade.pnl = IF FGt(old.size, Num(0))
                           THEN FMul(FSub(lastOp.close, old.avgPrice), FAbs(old.size))
                           ELSE FMul(FSub(old.avgPrice, lastOp.close), FAbs(old.size))
            /\ cash = FAdd(lastOp.cash, trade.pnl)
            /\ position.size = Num(0)

\* close(id) on a short position of 3 entered at 4, at close 1, books a second
\* trade with pnl 9 behind the one already recorded
C22_Witness ==
    /\ IsClosingCall
    /\ lastOp.op = "close"
    /\ lastOp.position = [size |-> Num(-3), avgPrice |-> Num(4)]
    /\ lastOp.close = Num(1)
    /\ Len(trades) = 2
    /\ trades[2].pnl = Num(9)
    /\ cash = FAdd(lastOp.cash, Num(9))

\* close_all() on a long position at a loss
C22_WitnessCloseAll ==
    /\ IsClosingCall
    /\ lastOp.op = "close_all"
    /\ FGt(lastOp.position.size, Num(0))
    /\ FLt(trades[Len(trades)].pnl, Num(0))

\* C23: an indicator called with length <= 0, on the first bar or a later
\* one, returns NaN (NaN in every component of a tuple result); a missing
\* value (undefined) is let pass as well.
C23_NonPositiveLengthIsNaN ==
    (Called /\ CurLen <= 0) =>
        IF kind = "bb" THEN ToNumber(ret[1]) = NaN /\ ToNumber(ret[2]) = NaN
        ELSE ToNumber(ret) = NaN

\* C24: after every call of a history-keeping indicator its buffer holds at
\* most MAX_BUFFER_SIZE samples, whatever the run length and the lengths
\* requested.
C24_BufferCapped ==
    (kind \in Kinds /\ Called) => Len(states[1].buffer) <= MAX_BUFFER_SIZE

\* the sign of x - y for an operand pair: -1, 0 or 1
SignOfDiff(pair) == Sign(FSub(pair[1], pair[2])[1])
CrossOperandsFinite ==
    \A i \in 1 .. Len(hist) : IsFinite(hist[i][1]) /\ IsFinite(hist[i][2])

\* C25: on finite operands, cross returns false on the first call of its call
\* site and on every later call true exactly when the sign of x - y differs
\* from the sign of x - y on the previous call; crossover returns true only
\* for a change towards x > y, crossunder only for a change towards x < y.
C25_CrossOnSignChange ==
    (kind \in CrossKinds /\ Called /\ CrossOperandsFinite) =>
        IF Len(hist) = 1 THEN ret = FALSE
        ELSE LET cur == SignOfDiff(hist[Len(hist)])
                 prev == SignOfDiff(hist[Len(hist) - 1])
             IN  CASE kind = "cross" -> ret = (cur # prev)
                   [] kind = "crossover" -> ret => (cur = 1 /\ prev # 1)
                   [] kind = "crossunder" -> ret => (cur = -1 /\ prev # -1)

\* C26: transpile returns JavaScript only when lexing and parsing handed no
\* diagnostic to the listeners; when they handed at least one, it returns
\* nothing and throws one error that carries all of them, each with its line,
\* column and message.
C26_AllDiagnosticsSurface ==
    emitted.status # "none" =>
        /\ emitted.status = "returned" => emitted.collected = <<>>
        /\ emitted.collected # <<>> =>
               /\ emitted.status = "thrown"
               /\ "errors" \in DOMAIN emitted.error
               /\ emitted.error.errors = emitted.collected

\* the induction values a, a + s, a + 2s, ... that do not exceed b
InductionValues ==
    LET s == IF pineSource.hasBy THEN pineSource.by ELSE 1
    IN  {v \in pineSource.from .. pineSource.to : (v - pineSource.from) % s = 0}
LastInductionValue ==
    CHOOSE v \in InductionValues : \A w \in InductionValues : w <= v
ForDone == pineSource # <<>> /\ pineSource.kind = "for" /\ jsRun.state = "done"

\* C27: a for expression runs its block once for every induction value
\* a, a + s, a + 2s, ... not exceeding b (s = 1 without `by`), and when the
\* last statement of the block is an expression or a call it evaluates to the
\* value of that expression in the last iteration.
C27_ForRunsEveryIteration ==
    ForDone =>
        /\ jsRun.entered = Cardinality(InductionValues)
        /\ (InductionValues # {}
            /\ pineSource.block[Len(pineSource.block)] = "expr") =>
               jsRun.value = ExprValue(Len(pineSource.block), LastInductionValue)

IfDone == pineSource # <<>> /\ pineSource.kind = "if" /\ jsRun.state = "done"

\* C28: an if expression evaluates to the value of the last expression of the
\* block that was executed, and to NaN when its condition is false and it has
\* no else block.
C28_IfValue ==
    IfDone =>
        IF pineSource.cond
        THEN pineSource.thenBlock[Len(pineSource.thenBlock)] = "expr" =>
                 jsRun.value = ExprValue(Len(pineSource.thenBlock), 1)
        ELSE IF pineSource.hasElse
        THEN pineSource.elseBlock[Len(pineSource.elseBlock)] = "expr" =>
                 jsRun.value = ExprValue(Len(pineSource.elseBlock), 2)
        ELSE jsRun.value = NaN

\* from-scratch numerator of the trailing min(length, n) samples
WindowNumerator(length) ==
    WeightedFrom(hist, WindowStart(length), WindowStart(length), Len(hist), Num(0))

\* the last wma call went down the O(1) branch without healing
WmaTookFastPath == states[1].counter > 0

\* C29: wma takes its O(1) recurrence only on a call whose length is that of
\* the previous call and before which at least length samples had been
\* received; every other call recomputes, so that after every call sum and
\* numerator are the from-scratch values over the trailing min(length, n)
\* samples.
C29_WmaRecurrenceOnlyWhenValid ==
    (kind = "wma" /\ Called) =>
        /\ WmaTookFastPath =>
               /\ Len(lens) >= 2
               /\ CurLen = lens[Len(lens) - 1]
               /\ Len(hist) - 1 >= CurLen
        /\ states[1].sum = WindowSum(CurLen)
        /\ states[1].numerator = WindowNumerator(CurLen)

\* the deque of the call site after its last call, and the index of the
\* current sample
DequeVals == states[1].dequeVals
DequeIdxs == states[1].dequeIdxs
CurrentIndex == states[1].globalIdx - 1
DequeCalled == kind \in DequeKinds /\ Called
IsMinKind == kind \in {"lowest", "lowestbars"}

\* (a) and (b) of C30: the deque is non-empty, its last entry is the current
\* sample, its indices are strictly increasing and lie in the window
\* (current index - length, current index]
DequeShape ==
    /\ Len(DequeVals) > 0
    /\ Len(DequeIdxs) = Len(DequeVals)
    /\ DequeVals[Len(DequeVals)] = hist[Len(hist)]
    /\ DequeIdxs[Len(DequeIdxs)] = CurrentIndex
    /\ \A k \in 1 .. Len(DequeIdxs) - 1 : DequeIdxs[k] < DequeIdxs[k + 1]
    /\ \A k \in 1 .. Len(DequeIdxs) :
           /\ DequeIdxs[k] > CurrentIndex - CurLen
           /\ DequeIdxs[k] <= CurrentIndex

SlotsPerCall(k) ==
    CASE k \in {"sma", "ema", "rma", "wma", "bb", "mom", "swma"} \cup CrossKinds
                \cup DequeKinds -> 1
      [] k \in {"vwma", "cci", "stoch"} -> 2
      [] k \in {"rsi", "macd"} -> 3
      [] k = "trix" -> 4

\* C31: every indicator call that returns has advanced the call counter by
\* the number of slots fixed for the indicator - one for sma, ema, rma, wma,
\* bb, mom, swma, the cross and the highest/lowest families, two for vwma,
\* cci and stoch, three for rsi and macd, four for trix - on the first bar,
\* during warm-up and afterwards, at every length; and as long as every bar
\* has made the same calls in the same order, no call has thrown and every
\* call site has begun at the slot it began at on the first bar.
C31_FixedSlotsEachCall ==
    /\ (lastCall.site # 0 /\ lastCall.returned) =>
           lastCall.to - lastCall.from = SlotsPerCall(lastCall.kind)
    /\ ~skipped =>
           /\ ~aborted
           /\ lastCall.site # 0 => lastCall.from = siteSlots[lastCall.site]

\* trix, called on a later bar of a script that has made every call on every
\* bar, has taken the four slots it took on the first bar
C31_Witness ==
    /\ bar >= 1
    /\ ~skipped
    /\ lastCall.site # 0
    /\ lastCall.kind = "trix"
    /\ lastCall.returned
    /\ lastCall.to - lastCall.from = 4
    /\ lastCall.from = siteSlots[lastCall.site]
    /\ lastCall.from > 0


\* the Context of a script that consists of the one call site alone, after
\* its first n bars with the market data of the first n bars of the history
RECURSIVE ReplaySite(_, _, _)
ReplaySite(site, markets, n) ==
    IF n = 0
    THEN [m |-> [tbl |-> <<>>, counter |-> 0, meta |-> <<>>, made |-> 0,
                 log |-> <<>>, aborted |-> FALSE],
          ret |-> NaN]
    ELSE Do([before \in {ReplaySite(site, markets, n - 1).m} |->
             RunSiteAt(site, [before EXCEPT !.counter = Reset(@), !.log = <<>>],
                       markets[n])])

\* C32: as long as every bar has made the same indicator calls in the same
\* order, the value a call site returns is the value the same call returns
\* in a script that consists of that call site alone and is fed the same
\* arguments bar by bar; so it is a function of the site's own argument
\* sequence, whatever the other call sites are passed and whatever plot or
\* strategy calls the script makes.
C32_SiteDependsOnOwnArguments ==
    (lastCall.site # 0 /\ ~skipped) =>
        /\ lastCall.returned
        /\ ret = ReplaySite(script[lastCall.site], hist, lastCall.bar + 1).ret

\* on a later bar vwma, called after sma and fed a volume that has differed
\* from the close, has returned a number
C32_Witness ==
    /\ ~skipped
    /\ lastCall.site > 1
    /\ lastCall.kind = "vwma"
    /\ lastCall.bar >= 1
    /\ IsFinite(ret)
    /\ \E i \in 1 .. Len(hist) : hist[i].close # hist[i].volume


\* the trailing length samples have all been supplied and none of them is NaN
WindowFree(length) ==
    /\ Len(hist) >= length
    /\ \A i \in WindowIdx(length) : ~IsNaN(ToNumber(hist[i]))

\* C33: at a call site of sma, wma or bb whose length has never changed,
\* every call whose trailing length samples contain no NaN returns the mean,
\* the weighted mean, or the mean and variance, of those samples - also when
\* a NaN sample was received before the window.
C33_NaNOnlyInsideWindow ==
    (kind \in {"sma", "wma", "bb"} /\ Called /\ ConstantLength
        /\ WindowFree(CurLen)) =>
        ret = CASE kind = "sma" -> NaiveSma(hist, CurLen)
                [] kind = "wma" -> NaiveWma(hist, CurLen)
                [] kind = "bb" -> NaiveBb(hist, CurLen, Mult)


\* the state record and the value after the first n calls of the call site,
\* replayed from the histories; with whole set, the buffer of every call is
\* the complete history of the samples before it, as if nothing had ever
\* been cut
RECURSIVE SiteRun(_, _, _)
SiteRun(k, n, whole) ==
    IF n = 0 THEN [state |-> InitialState(k), ret |-> NaN]
    ELSE Do([prev \in {SiteRun(k, n - 1, whole).state} |->
             Indicator(k,
                       IF whole THEN [prev EXCEPT !.buffer = SubSeq(hist, 1, n - 1)]
                       ELSE prev,
                       hist[n], lens[n])])

\* the n-th call cut the buffer
WasCut(k, n) ==
    Len(SiteRun(k, n, FALSE).state.buffer)
        <= Len(SiteRun(k, n - 1, FALSE).state.buffer)

\* the running sums and the deque of a state record are what the rebuild
\* loops compute from the trailing length samples of its buffer
ConsistentWithBuffer(k, st, length) ==
    LET buf == st.buffer
        n == Len(buf)
        start == Max(0, n - length)
    IN  CASE k = "sma" -> st.sum = SumFrom(buf, start, n, Num(0))
          [] k = "wma" ->
                /\ st.sum = SumFrom(buf, start, n, Num(0))
                /\ st.numerator = WeightedFrom(buf, start, start, n, Num(0))
          [] k = "bb" ->
                /\ st.sum = SumFrom(buf, start, n, Num(0))
                /\ st.sumSq = SumSqFrom(buf, start, n, Num(0))
          [] k \in DequeKinds ->
                LET q == RebuildDeque(buf, st.globalIdx - 1, start, <<>>, <<>>,
                                      k \in {"lowest", "lowestbars"})
                IN  st.dequeVals = q.vals /\ st.dequeIdxs = q.idxs
          [] k = "mom" -> TRUE

\* C34: whenever a call of sma, wma, bb, the highest/lowest family or mom
\* cuts its buffer, at least the trailing length samples (length + 1 for
\* mom) remain and the running sums and the deque agree with the samples
\* that remain; and the value returned by that call, and by every later call
\* made with the length of that call, is the value returned when the buffer
\* is never cut.
C34_TrimmingChangesNothing ==
    (kind \in TrimKinds /\ Called) =>
        LET n == Len(hist)
        IN  /\ WasCut(kind, n) =>
                /\ Len(states[1].buffer)
                       >= CurLen + (IF kind = "mom" THEN 1 ELSE 0)
                /\ ConsistentWithBuffer(kind, states[1], CurLen)
            /\ (\E j \in 1 .. n : WasCut(kind, j) /\ lens[j] = CurLen) =>
                   ret = SiteRun(kind, n, TRUE).ret


\* the entries of an indent stack
Levels(stack) == {stack[i] : i \in DOMAIN stack}

\* the last token read was an LBEG outside brackets whose width is below the
\* top of the stack and equal to none of its entries
UnmatchedDedent ==
    /\ physical.type = "LBEG"
    /\ atRead.paren = 0
    /\ IndentLength(physical.text) < Top(atRead.stack)
    /\ IndentLength(physical.text) \notin Levels(atRead.stack)

\* C35: the indent stack is never empty, its bottom entry is 0 and its
\* entries increase strictly from bottom to top; and after a dedent to a
\* width that is none of the stack's entries, no exception has been thrown
\* and the top of the stack is the largest of the former entries below that
\* width.
C35_IndentStackShape ==
    /\ Len(indentStack) >= 1
    /\ indentStack[1] = 0
    /\ \A i \in 1 .. Len(indentStack) - 1 : indentStack[i] < indentStack[i + 1]
    /\ UnmatchedDedent =>
           /\ lexStatus # "thrown"
           /\ Top(indentStack) \in Levels(atRead.stack)
           /\ Top(indentStack) < IndentLength(physical.text)
           /\ \A e \in Levels(atRead.stack) :
                  e < IndentLength(physical.text) => e <= Top(indentStack)

\* a dedent from three levels to a width between the first two nested ones
\* has popped two levels and left the first nested level on top
C35_Witness ==
    /\ UnmatchedDedent
    /\ Len(atRead.stack) = 4
    /\ Len(indentStack) = 2
    /\ Top(indentStack) > 0
    /\ lexStatus = "run"


\* the tokens of a sequence that the scanner produced and that are not LBEG
PhysicalOf(tokens) ==
    SelectSeq(tokens, LAMBDA t : t.type \notin {"BEGIN", "END", "LEND", "LBEG"})

\* C36: every token the scanner produces, LBEG apart, is delivered exactly
\* once, after the tokens read before it and before those read after it: the
\* tokens handed out for one read - the one returned and those queued - hold
\* the token read once if it is not an LBEG and no other scanner token, they
\* are delivered in queue order before the next read, and the run is not cut
\* short: no call throws, and the last token delivered is EOF.
C36_PhysicalTokensPreserved ==
    /\ lexStatus # "thrown"
    /\ PhysicalOf(burst) = IF physical.type \in {"none", "LBEG"} THEN <<>>
                           ELSE <<physical>>
    /\ burst = sent \o pendingTokens
    /\ lexStatus = "eof" =>
           /\ pendingTokens = <<>>
           /\ delivered.type = "EOF"
           /\ physical.type = "EOF"


\* cash after ctx.cash += pnl has run for the first n trades of the log
RECURSIVE CashAfter(_, _)
CashAfter(log_, n) ==
    IF n = 0 THEN Num(InitialCash)
    ELSE FAdd(CashAfter(log_, n - 1), log_[n].pnl)

\* C37: after any sequence of entry, close and close_all calls at any
\* prices, cash is the initial cash plus the pnl of every trade in the log;
\* the log after a call is the log before it, with trades appended at most;
\* and close or close_all called on a flat position leaves position, cash and
\* log as they were.
C37_CashIsInitialPlusPnl ==
    /\ cash = CashAfter(trades, Len(trades))
    /\ lastOp.op # "none" =>
           /\ Len(trades) >= Len(lastOp.trades)
           /\ SubSeq(trades, 1, Len(lastOp.trades)) = lastOp.trades
           /\ (lastOp.op \in {"close", "close_all"}
                   /\ lastOp.position.size = Num(0)) =>
                  /\ trades = lastOp.trades
                  /\ cash = lastOp.cash
                  /\ position = lastOp.position

\* two trades with a profit and a loss have been booked
C37_Witness ==
    /\ Len(trades) = 2
    /\ FGt(trades[1].pnl, Num(0))
    /\ FLt(trades[2].pnl, Num(0))
    /\ cash # Num(InitialCash)

\* C38: at the close of the bar on which it is called, equity is the same
\* after an entry with qty > 0 - adding to the position, reversing it or
\* opening one from flat - and after close and close_all as before the call.
C38_EquityUnchangedByCalls ==
    lastOp.op # "none" =>
        Equity(StrategyState, lastOp.close)
            = Equity([position |-> lastOp.position, cash |-> lastOp.cash,
                      trades |-> lastOp.trades], lastOp.close)

\* an entry has added to a position that was bought at another price and
\* carries an unrealized profit
C38_Witness ==
    /\ lastOp.op = "entry"
    /\ lastOp.position.size # Num(0)
    /\ Sign(lastOp.position.size[1]) = Sign(position.size[1])
    /\ lastOp.position.avgPrice # lastOp.close
    /\ position.avgPrice # lastOp.position.avgPrice
    /\ Equity(StrategyState, lastOp.close) # cash


\* the state record and the value of a call site of cross function k after
\* it has been called with the first n operand pairs of the history
RECURSIVE CrossRun(_, _)
CrossRun(k, n) ==
    IF n = 0 THEN [state |-> CrossStateInit, ret |-> FALSE]
    ELSE Do([prev \in {CrossRun(k, n - 1).state} |->
             CrossIndicator(k, prev, hist[n][1], hist[n][2])])

\* C39: on every bar, for call sites of cross, crossover and crossunder that
\* have been passed the same operands on every bar so far: cross is true
\* exactly when crossover or crossunder is.
C39_CrossIsEitherDirection ==
    (kind \in CrossKinds /\ Called) =>
        /\ ret = CrossRun(kind, Len(hist)).ret
        /\ CrossRun("cross", Len(hist)).ret
               <=> \/ CrossRun("crossover", Len(hist)).ret
                   \/ CrossRun("crossunder", Len(hist)).ret


\* the plot call sites of the script
PlotSites == {i \in DOMAIN script : script[i].kind = "plot"}

\* C40: the plot registry holds at most one series per plot call site of the
\* script, however many bars have run; and once a plot call that stands
\* outside any `if` has been made on the current bar, the registry holds a
\* series under the title of the call - passed positionally or as title=T -
\* whose entry for the bar is the value passed.
C40_OneSeriesPerPlotSite ==
    /\ Cardinality(DOMAIN plots) <= Cardinality(PlotSites)
    /\ \A i \in PlotSites :
           (pc > i /\ ~script[i].cond) =>
               /\ script[i].title \in DOMAIN plots
               /\ Len(plots[script[i].title]) = bar + 1
               /\ plots[script[i].title][bar + 1] = market.close

====
